---- MODULE Spec2Model ----
(***************************************************************************)
(* collection-hooks: the TTL cache (utils/clientCache.ts and its server    *)
(* twin server/cache.ts) and the request handlers that createCollectionApi *)
(* builds on the server cache and the document store.                      *)
(*                                                                         *)
(* Time is counted in abstract clock units.  A handler runs atomically     *)
(* between two awaits; the store executes one operation at a time and the  *)
(* handler's continuation runs in a later step.                            *)
(***************************************************************************)
EXTENDS Integers, Sequences, FiniteSets, TLC

\* ------------------------------------------------------------------ bounds
MaxReq == 4          \* requests issued in one behaviour
MaxInFlight == 2     \* requests awaiting the store at the same time
MaxTime == 2         \* last value of the server clock
CacheTime == 1       \* the cacheTime option of createCollectionApi, in clock units

\* --------------------------------------------------------------- constants
Null == "null"
Undefined == "undefined"
Idle == "idle"

Ids == {"1", "2"}
Titles == {"A", "B"}
CollectionName == <<"s", "e", "r", "v", "i", "c", "e", "s">>

VARIABLES
  store,        \* the collection's documents in the store, in insertion order
  nextOid,      \* next store-assigned identifier
  ver,          \* number of writes the store has applied
  serverCache,  \* the server cache: key -> entry
  now,          \* server clock (Date.now())
  reqs,         \* slot -> request in flight, or Idle
  nreq,         \* requests issued so far
  last,         \* the request the latest step completed, with its response, if any
  fill,         \* key -> response returned by the request that set the entry
  acked,        \* highest store version of an update that has returned success
  created       \* _id of a create that returned success while collection:<name>:all was live,
                \* until the next request starts (0: none)

svars == <<store, nextOid, ver, serverCache, now, reqs, nreq, last, fill, acked, created>>

VARIABLES
  clientCache,  \* the client cache: key -> entry
  clock,        \* client clock (Date.now()), in minutes
  ret,          \* what the latest cache call returned, if the latest step was a call
  hist          \* key -> the latest set of the key: its value, time and ttl

cvars == <<clientCache, clock, ret, hist>>

VARIABLES
  client,             \* config.ts: id of the MongoClient held, 0 for null
  db,                 \* config.ts: the Db held, or null
  connectionPromise,  \* config.ts: id of the promise held, 0 for null
  debugMode,          \* config.ts
  promises,           \* promise id -> its state and the Db it resolves to
  awaiting,           \* promise id -> getDatabase calls suspended on it
  closing,            \* client.close() calls that have not settled
  ncalls,             \* calls of the exported functions so far
  cfgLast,            \* what the latest step returned or settled, if anything
  latest,             \* the Db named by the most recent valid configureCollectionHooks
  inEffect,           \* a valid configuration was made and no closeConnection resolved since
  closes              \* closeConnection has been called

kvars == <<client, db, connectionPromise, debugMode, promises, awaiting, closing, ncalls,
           cfgLast, latest, inEffect, closes>>

VARIABLES
  hook,          \* the hook the component has mounted: "none", "query" or "collection"
  inst,          \* mounts so far; the current instance while hook # "none"
  url,           \* useCollectionQuery: the url argument of the latest render
  serverData,    \* useCollectionQuery state: data
  error,         \* useCollectionQuery state
  loading,       \* useCollectionQuery state
  options,       \* useCollection: the options argument
  initialData,   \* useCollection: the initialData argument
  cachedData,    \* useCollection state
  isRefreshing,  \* useCollection state
  requests,      \* fetch calls that have not settled
  nfetch,        \* fetch calls so far
  nlater,        \* fetch calls so far that were not the one of a mount
  seed,          \* what the mount effect of the current instance read from the client cache
  applied,       \* a successful response was applied to the current instance
  hLast          \* what the latest step of the hook did, if anything

hvars == <<hook, inst, url, serverData, error, loading, options, initialData, cachedData,
           isRefreshing, requests, nfetch, nlater, seed, applied, hLast>>

VARIABLES
  mutData,       \* useCollectionMutation state: data
  mutError,      \* useCollectionMutation state: error
  mutLoading,    \* useCollectionMutation state: loading
  mutRequests,   \* mutate calls whose request has not settled
  nmut,          \* mutate calls so far
  mutLast        \* what the latest step of the mutation hook did, if anything

mvars == <<mutData, mutError, mutLoading, mutRequests, nmut, mutLast>>

VARIABLES
  allHook,       \* useAllCollections: "none", "mounted" or "gone" (unmounted)
  collections,   \* useAllCollections: the useCollection instances, in the order of endpoints
  allRequests,   \* fetches of the instances that have not settled
  allCalls,      \* the refreshAll calls so far: the promise of each refresh, and its own
  allOut,        \* what the latest render of useAllCollections returned
  allLast        \* what the latest step of useAllCollections did

avars == <<allHook, collections, allRequests, allCalls, allOut, allLast>>

xvars == <<kvars, hvars, mvars, avars>>

vars == <<svars, cvars, xvars>>

\* ------------------------------------------------------------ plain values
Field(item, f) == IF f \in DOMAIN item THEN item[f] ELSE Undefined

SetField(item, f, v) == [x \in DOMAIN item \cup {f} |-> IF x = f THEN v ELSE item[x]]

\* JavaScript a || b on strings and undefined
OrElse(a, b) == IF a \notin {Undefined, ""} THEN a ELSE b

\* { ...a, ...b }
Spread(a, b) == [x \in DOMAIN a \cup DOMAIN b |-> IF x \in DOMAIN b THEN b[x] ELSE a[x]]

\* JSON.stringify drops the properties whose value is undefined
Json(item) == [x \in {y \in DOMAIN item : item[y] # Undefined} |-> item[x]]

\* JSON.stringify of an array of items
JsonAll(items) == [i \in 1..Len(items) |-> Json(items[i])]

\* ------------------------------------------------- utils/standardization
EndsWithS(name) == Len(name) > 0 /\ name[Len(name)] = "s"

GetEntityType(name) ==
  IF name = <<"c", "a", "s", "e", "-", "s", "t", "u", "d", "i", "e", "s">>
    THEN <<"c", "a", "s", "e", "-", "s", "t", "u", "d", "y">>
    ELSE IF EndsWithS(name) THEN SubSeq(name, 1, Len(name) - 1) ELSE name

CaseStudy == <<"c", "a", "s", "e", "-", "s", "t", "u", "d", "y">>
Service == <<"s", "e", "r", "v", "i", "c", "e">>
Solution == <<"s", "o", "l", "u", "t", "i", "o", "n">>

\* the fieldMappings option: a sequence of <<from, to>> pairs
FieldMappings == <<>>

RECURSIVE ApplyMappings(_, _)
ApplyMappings(item, maps) ==
  IF maps = <<>> THEN item
  ELSE LET from == Head(maps)[1]
           to == Head(maps)[2]
           it == IF Field(item, from) # Undefined /\ Field(item, to) = Undefined
                   THEN SetField(item, to, Field(item, from))
                   ELSE item
       IN ApplyMappings(it, Tail(maps))

\* standardized.name = standardized.name || standardized.title
StdName(st, entityType) ==
  IF entityType \in {CaseStudy, Service}
    THEN SetField(st, "name", OrElse(Field(st, "name"), Field(st, "title")))
    ELSE st

\* standardized.description = standardized.description || standardized.solutionNarrative
StdDescription(st, entityType) ==
  IF entityType = Solution
    THEN SetField(st, "description",
                  OrElse(Field(st, "description"), Field(st, "solutionNarrative")))
    ELSE st

\* problemStatement || challenge, problemStatement || primaryChallenges.join('. ')
StdProblemStatement(st, entityType) ==
  IF entityType = CaseStudy
    THEN SetField(st, "problemStatement",
                  OrElse(Field(st, "problemStatement"), Field(st, "challenge")))
    ELSE IF entityType = Solution
      THEN SetField(st, "problemStatement",
                    OrElse(Field(st, "problemStatement"), Field(st, "primaryChallenges")))
      ELSE st

\* keyFeatures || benefits, keyFeatures || outcomeMetrics
StdKeyFeatures(st, entityType) ==
  IF entityType = Service
    THEN SetField(st, "keyFeatures", OrElse(Field(st, "keyFeatures"), Field(st, "benefits")))
    ELSE IF entityType = Solution
      THEN SetField(st, "keyFeatures",
                    OrElse(Field(st, "keyFeatures"), Field(st, "outcomeMetrics")))
      ELSE st

StandardizeFields(item, entityType, customMappings) ==
  StdKeyFeatures(
    StdProblemStatement(
      StdDescription(
        StdName(ApplyMappings(item, customMappings), entityType),
        entityType),
      entityType),
    entityType)

\* ---------------------------------------------------------- the TTL cache
\* An entry is [data, timestamp, expiresAt]; a cache is a function key -> entry.
EmptyCache == [k \in {} |-> Null]

Without(c, key) == [k \in DOMAIN c \ {key} |-> c[k]]

CacheSet_KeepExisting(c, key, value, ttl, t) ==
  [k \in DOMAIN c \cup {key} |->
     IF k \in DOMAIN c THEN c[k]
     ELSE [data |-> value, timestamp |-> t, expiresAt |-> t + ttl]]

CacheSet_NoTtl(c, key, value, ttl, t) ==
  [k \in DOMAIN c \cup {key} |->
     IF k = key THEN [data |-> value, timestamp |-> t, expiresAt |-> t] ELSE c[k]]

CacheSet(c, key, value, ttl, t) ==
  [k \in DOMAIN c \cup {key} |->
     IF k = key THEN [data |-> value, timestamp |-> t, expiresAt |-> t + ttl] ELSE c[k]]

Expired_Never(entry, t) == FALSE

Expired_AtExpiry(entry, t) == t >= entry.expiresAt

\* Date.now() > entry.expiresAt
Expired(entry, t) == t > entry.expiresAt

\* get: the value returned ([null |-> TRUE] for null), and the cache it leaves behind
CacheGetValue_Miss(c, key, t) == [null |-> TRUE]

CacheGetValue(c, key, t) ==
  IF key \notin DOMAIN c THEN [null |-> TRUE]
  ELSE IF Expired(c[key], t) THEN [null |-> TRUE]
  ELSE [null |-> FALSE, value |-> c[key].data]

CacheGetCache_NoEvict(c, key, t) == c

CacheGetCache(c, key, t) ==
  IF key \in DOMAIN c /\ Expired(c[key], t) THEN Without(c, key) ELSE c

CacheDelete_All(c, key) == EmptyCache

CacheDelete(c, key) == Without(c, key)

\* has: the answer, and the cache it leaves behind
CacheHasValue(c, key, t) ==
  IF key \notin DOMAIN c THEN FALSE
  ELSE IF Expired(c[key], t) THEN FALSE ELSE TRUE

CacheHasCache_NoEvict(c, key, t) == c

CacheHasCache(c, key, t) ==
  IF key \in DOMAIN c /\ Expired(c[key], t) THEN Without(c, key) ELSE c

StartsWith_Includes(key, prefix) ==
  \E i \in 0..(Len(key) - Len(prefix)) : SubSeq(key, i + 1, i + Len(prefix)) = prefix

\* key.startsWith(prefix)
StartsWith(key, prefix) ==
  Len(prefix) <= Len(key) /\ SubSeq(key, 1, Len(prefix)) = prefix

\* a loop that stops after its first deletion
CacheDeleteByPrefix_First(c, prefix) ==
  LET hit == {x \in DOMAIN c : Len(prefix) <= Len(x) /\ SubSeq(x, 1, Len(prefix)) = prefix}
      first == CHOOSE x \in hit : \A y \in hit : Len(x) <= Len(y)
  IN IF hit = {} THEN c ELSE [k \in DOMAIN c \ {first} |-> c[k]]

CacheDeleteByPrefix(c, prefix) ==
  [k \in {x \in DOMAIN c : ~StartsWith(x, prefix)} |-> c[k]]

CacheClear(c) == EmptyCache

CacheKeys(c) == DOMAIN c

CacheSize(c) == Cardinality(DOMAIN c)

\* ------------------------------------------- the client cache in use
MaxClock == 6        \* last value of the client clock, in minutes
DefaultTTL == 5      \* defaultTTL = 5 * 60 * 1000 ms, in minutes

TTLs == {1, 2}
CKeys == {<<"a", "b">>, <<"b">>}
Prefixes == {<<>>, <<"a">>, <<"b">>, <<"a", "b">>}
CValues == {"v1", "v2"}

NoRet == [op |-> "none"]
NoSet == [set |-> FALSE, v |-> "", at |-> 0, ttl |-> 0, dflt |-> FALSE, removed |-> FALSE,
          evicted |-> FALSE]

\* the ttl the latest set of the key was given
TtlOf(h) == IF h.dflt THEN DefaultTTL ELSE h.ttl

\* the latest set of the key is past its expiry and nothing has removed the entry
PastExpiry(h, t) == h.set /\ ~h.removed /\ t > h.at + TtlOf(h)

\* hist after a lookup of the key at time t
Looked(h, key, t) == [h EXCEPT ![key].evicted = @ \/ PastExpiry(h[key], t)]

CacheInit ==
  /\ clientCache = EmptyCache
  /\ clock = 0
  /\ ret = NoRet
  /\ hist = [k \in CKeys |-> NoSet]

\* what a set is remembered by: whether the key was present, the size before, and
\* whether the entry it replaced was to expire later than the new one
SetRet(key, ttl) ==
  [op |-> "set", key |-> key,
   had |-> key \in DOMAIN clientCache,
   size |-> CacheSize(clientCache),
   later |-> key \in DOMAIN clientCache /\ clientCache[key].expiresAt > clock + ttl]

\* clientCache.set(key, value, ttl)
SetCall(key, value, ttl) ==
  /\ clientCache' = CacheSet(clientCache, key, value, ttl, clock)
  /\ ret' = SetRet(key, ttl)
  /\ hist' = [hist EXCEPT ![key] = [set |-> TRUE, v |-> value, at |-> clock, ttl |-> ttl,
                                     dflt |-> FALSE, removed |-> FALSE, evicted |-> FALSE]]
  /\ UNCHANGED <<clock, svars, xvars>>

\* clientCache.set(key, value): ttl takes its default
SetDefaultCall(key, value) ==
  /\ clientCache' = CacheSet(clientCache, key, value, DefaultTTL, clock)
  /\ ret' = SetRet(key, DefaultTTL)
  /\ hist' = [hist EXCEPT ![key] = [set |-> TRUE, v |-> value, at |-> clock, ttl |-> 0,
                                     dflt |-> TRUE, removed |-> FALSE, evicted |-> FALSE]]
  /\ UNCHANGED <<clock, svars, xvars>>

GetCall(key) ==
  /\ ret' = [op |-> "get", key |-> key, got |-> CacheGetValue(clientCache, key, clock)]
  /\ clientCache' = CacheGetCache(clientCache, key, clock)
  /\ hist' = Looked(hist, key, clock)
  /\ UNCHANGED <<clock, svars, xvars>>

HasCall(key) ==
  /\ ret' = [op |-> "has", key |-> key, has |-> CacheHasValue(clientCache, key, clock)]
  /\ clientCache' = CacheHasCache(clientCache, key, clock)
  /\ hist' = Looked(hist, key, clock)
  /\ UNCHANGED <<clock, svars, xvars>>

DeleteCall(key) ==
  /\ clientCache' = CacheDelete(clientCache, key)
  /\ ret' = [op |-> "delete", key |-> key, before |-> clientCache]
  /\ hist' = [hist EXCEPT ![key].removed = TRUE]
  /\ UNCHANGED <<clock, svars, xvars>>

DeleteByPrefixCall(prefix) ==
  /\ clientCache' = CacheDeleteByPrefix(clientCache, prefix)
  /\ ret' = [op |-> "deleteByPrefix", key |-> prefix, before |-> clientCache]
  /\ hist' = [k \in CKeys |-> IF StartsWith(k, prefix)
                                THEN [hist[k] EXCEPT !.removed = TRUE] ELSE hist[k]]
  /\ UNCHANGED <<clock, svars, xvars>>

ClearCall ==
  /\ clientCache' = CacheClear(clientCache)
  /\ ret' = [op |-> "clear", key |-> <<>>]
  /\ hist' = [k \in CKeys |-> [hist[k] EXCEPT !.removed = TRUE]]
  /\ UNCHANGED <<clock, svars, xvars>>

ClockTick ==
  /\ clock < MaxClock
  /\ clock' = clock + 1
  /\ ret' = NoRet
  /\ UNCHANGED <<clientCache, hist, svars, xvars>>

CacheNext ==
  \/ \E k \in CKeys, v \in CValues, ttl \in TTLs : SetCall(k, v, ttl)
  \/ \E k \in CKeys, v \in CValues : SetDefaultCall(k, v)
  \/ \E k \in CKeys : GetCall(k)
  \/ \E k \in CKeys : HasCall(k)
  \/ \E k \in CKeys : DeleteCall(k)
  \/ \E p \in Prefixes : DeleteByPrefixCall(p)
  \/ ClearCall
  \/ ClockTick

\* --------------------------------------------------- server/cache (twin)
ServerGetValue(c, key, t) == CacheGetValue(c, key, t)
ServerGetCache(c, key, t) == CacheGetCache(c, key, t)
ServerSet(c, key, value, ttl, t) == CacheSet(c, key, value, ttl, t)
ServerDelete(c, key) == CacheDelete(c, key)

\* ------------------------------------------------------------- the store
Doc(id, title, oid) == [id |-> id, title |-> title, _id |-> oid]

InitStores == { <<Doc("1", "A", 1)>> }

Matches(st, id) == {i \in 1..Len(st) : st[i].id = id}

FirstMatch(st, id) == CHOOSE i \in Matches(st, id) : \A j \in Matches(st, id) : i <= j

RemoveAt(st, i) == SubSeq(st, 1, i - 1) \o SubSeq(st, i + 1, Len(st))

\* ------------------------------------------------- createCollectionApi
\* the cache is shared by the apis of all collections: the listing of another one
OtherName == <<"p", "o", "s", "t", "s">>
OtherKey == <<"collection", OtherName, "all">>
OtherResult == [success |-> TRUE, data |-> <<>>, cached |-> FALSE]

AllKey == <<"collection", CollectionName, "all">>
IdKey(id) == <<"collection", CollectionName, id>>

ShouldStandardizeFields == TRUE
ValidateOnWrite == TRUE

\* { ...item, _id: item._id?.toString() }, then standardizeFields
ToPlain(item) ==
  LET plainItem == SetField(item, "_id", ToString(item._id))
  IN IF ShouldStandardizeFields
       THEN StandardizeFields(plainItem, GetEntityType(CollectionName), FieldMappings)
       ELSE plainItem

\* items.map(...)
ToPlainAll(items) == [i \in 1..Len(items) |-> ToPlain(items[i])]

\* the schema collaborator: an id and a title of the schema's type
SchemaOk(x) == "id" \in DOMAIN x /\ "title" \in DOMAIN x /\ x.title \in Titles

ParseThrows_Never(x) == FALSE

\* if (validateOnWrite) schema.parse(...): the payload is rejected
ParseThrows(x) == ValidateOnWrite /\ ~SchemaOk(x)

CreateBodies == {[id |-> "2", title |-> "B"], [title |-> "B"]}
UpdateBodies == {[title |-> "B"], [title |-> "bad"]}

ErrorOf(kind) ==
  CASE kind = "getAll" -> "Failed to fetch"
    [] kind = "getById" -> "Failed to fetch item"
    [] kind = "create" -> "Failed to create item"
    [] kind = "update" -> "Failed to update item"
    [] kind = "remove" -> "Failed to delete item"
    [] kind = "refreshCache" -> "Failed to refresh cache"

Response(status, body) == [status |-> status, body |-> body]

FailureResponse_NotFound(kind) == Response(404, [success |-> FALSE, error |-> ErrorOf(kind)])

\* the catch block of every handler
FailureResponse(kind) == Response(500, [success |-> FALSE, error |-> ErrorOf(kind)])

NotFoundResponse_Failure == Response(500, [success |-> FALSE, error |-> "not found"])

\* status: 404 of getById, update and remove
NotFoundResponse == Response(404, [success |-> FALSE, error |-> "not found"])

\* JSON.stringify(result) of a listing and of a single item
JsonList(result) == [result EXCEPT !.data = JsonAll(@)]
JsonItem(result) == [result EXCEPT !.data = Json(@)]

\* JSON.stringify(cachedData) of getById's hit: the value is sent as it was stored,
\* a listing under the key of the listing and an item under every other key (no
\* document of the store has the id "all")
JsonCached(key, value) == IF key = AllKey THEN JsonList(value) ELSE JsonItem(value)

FreshResult(data) == [success |-> TRUE, data |-> data, cached |-> FALSE]

ServedFromCache_Never(got) == FALSE

\* if (cachedData) on the value cache.get returned
ServedFromCache(got) == ~got.null

WritesCache_Always(skipCache) == TRUE

\* if (!skipCache) cache.set(...) of getAll and getById
WritesCache(skipCache) == ~skipCache

UpdateNotFound_Never(res) == FALSE
RemoveNotFound_Never(res) == FALSE

\* if (result.matchedCount === 0) of update, if (result.deletedCount === 0) of remove
UpdateNotFound(res) == res.matchedCount = 0
RemoveNotFound(res) == res.deletedCount = 0

\* ------------------------------------------------- requests in flight
NoReq == [kind |-> Idle]
NoLast == [kind |-> "none"]

NewReq(kind, method, id) ==
  [kind |-> kind, method |-> method, id |-> id, pc |-> "store",
   res |-> <<>>, data |-> <<>>, snapVer |-> 0,
   startAcked |-> acked, sawLive |-> FALSE, afterCreate |-> 0,
   storeOps |-> 0, wrote |-> "none", invalidated |-> 0,
   touchedKeys |-> {}, touchedLive |-> FALSE, missing |-> FALSE, storeFailed |-> FALSE,
   invalid |-> FALSE, sets |-> 0]

Slots == 1..MaxInFlight

FreeSlots == {s \in Slots : reqs[s].kind = Idle}

CanStart == nreq < MaxReq /\ FreeSlots # {}

FreeSlot == CHOOSE s \in FreeSlots : \A u \in FreeSlots : s <= u

Live(c, key, t) == key \in DOMAIN c /\ ~Expired(c[key], t)

LiveView(c, t) == [k \in {x \in DOMAIN c : ~Expired(c[x], t)} |-> c[k]]

ChangedKeys(c1, c2) ==
  {k \in DOMAIN c1 \cup DOMAIN c2 :
     \/ (k \in DOMAIN c1) # (k \in DOMAIN c2)
     \/ k \in DOMAIN c1 /\ k \in DOMAIN c2 /\ c1[k] # c2[k]}

\* the request, with what this step did to the cache recorded
Touch(r, c2) ==
  [r EXCEPT !.touchedKeys = @ \cup ChangedKeys(serverCache, c2),
            !.touchedLive = @ \/ LiveView(serverCache, now) # LiveView(c2, now)]

Done(r, resp) ==
  [f \in (DOMAIN r \ {"pc", "res", "data"}) \cup {"resp"} |-> IF f = "resp" THEN resp ELSE r[f]]

Max(a, b) == IF a >= b THEN a ELSE b

\* fill follows the cache: an entry that goes takes its record along
KeepFill(c2) == [k \in DOMAIN c2 |-> fill[k]]
SetFill(c2, key, v) == [k \in DOMAIN c2 |-> IF k = key THEN v ELSE fill[k]]

\* a request leaves its slot and becomes the last completed one
Complete(s, r, resp) ==
  /\ reqs' = [reqs EXCEPT ![s] = NoReq]
  /\ last' = Done(r, resp)

\* a request completes in the step that started it
CompleteAtOnce(r, resp) ==
  /\ reqs' = reqs
  /\ last' = Done(r, resp)

Suspend(r) == /\ reqs' = [reqs EXCEPT ![FreeSlot] = r]
              /\ last' = NoLast

\* ---- getAll --------------------------------------------------------
\* lines 35-47: the cache check, up to the first await
GetAllStart(method) ==
  /\ CanStart
  /\ nreq' = nreq + 1
  /\ LET skipCache == method = "POST"
         r0 == [NewReq("getAll", method, "") EXCEPT
                  !.sawLive = Live(serverCache, AllKey, now),
                  !.afterCreate = IF method = "GET" THEN created ELSE 0]
         got == ServerGetValue(serverCache, AllKey, now)
         c1 == IF skipCache THEN serverCache ELSE ServerGetCache(serverCache, AllKey, now)
         r1 == Touch(r0, c1)
     IN /\ serverCache' = c1
        /\ fill' = KeepFill(c1)
        /\ created' = 0
        /\ IF ~skipCache /\ ServedFromCache(got)
             THEN CompleteAtOnce([r1 EXCEPT !.snapVer = fill[AllKey].ver],
                                 Response(200, JsonList(got.value)))
             ELSE Suspend(r1)
  /\ UNCHANGED <<store, nextOid, ver, now, acked, cvars, xvars>>

\* collection.find(query).toArray() is executed by the store
StoreFind(s) ==
  /\ reqs[s].kind \in {"getAll", "refreshCache"}
  /\ reqs[s].pc = "store"
  /\ reqs' = [reqs EXCEPT ![s] = [@ EXCEPT !.res = store, !.snapVer = ver,
                                            !.storeOps = @ + 1, !.pc = "resume"]]
  /\ last' = NoLast
  /\ UNCHANGED <<store, nextOid, ver, serverCache, now, nreq, fill, acked, created, cvars, xvars>>

\* lines 62-88: the continuation after the store answered
GetAllResume(s) ==
  /\ reqs[s].kind = "getAll"
  /\ reqs[s].pc = "resume"
  /\ LET r == reqs[s]
         skipCache == r.method = "POST"
         data == ToPlainAll(r.res)
         result == FreshResult(data)
         c1 == IF WritesCache(skipCache)
                 THEN ServerSet(serverCache, AllKey, result, CacheTime, now)
                 ELSE serverCache
     IN /\ serverCache' = c1
        /\ fill' = IF WritesCache(skipCache)
                     THEN SetFill(c1, AllKey, [body |-> JsonList(result), ver |-> r.snapVer])
                     ELSE fill
        /\ Complete(s, [Touch(r, c1) EXCEPT !.sets = IF WritesCache(skipCache) THEN 1 ELSE 0],
                    Response(200, JsonList(result)))
  /\ UNCHANGED <<store, nextOid, ver, now, nreq, acked, created, cvars, xvars>>

\* getCollection or the store operation rejects: the catch block of the handler
StoreFail(s) ==
  /\ reqs[s].kind # Idle
  /\ reqs[s].pc = "store"
  /\ Complete(s, [reqs[s] EXCEPT !.storeFailed = TRUE, !.storeOps = @ + 1],
              FailureResponse(reqs[s].kind))
  /\ UNCHANGED <<store, nextOid, ver, serverCache, now, nreq, fill, acked, created, cvars, xvars>>

\* ---- getById -------------------------------------------------------
\* lines 104-117
GetByIdStart(method, id) ==
  /\ CanStart
  /\ nreq' = nreq + 1
  /\ LET skipCache == method = "POST"
         r0 == [NewReq("getById", method, id) EXCEPT
                  !.sawLive = Live(serverCache, IdKey(id), now)]
         got == ServerGetValue(serverCache, IdKey(id), now)
         c1 == IF skipCache THEN serverCache ELSE ServerGetCache(serverCache, IdKey(id), now)
         r1 == Touch(r0, c1)
     IN /\ serverCache' = c1
        /\ fill' = KeepFill(c1)
        /\ IF ~skipCache /\ ServedFromCache(got)
             THEN CompleteAtOnce([r1 EXCEPT !.snapVer = fill[IdKey(id)].ver],
                                 Response(200, JsonCached(IdKey(id), got.value)))
             ELSE Suspend(r1)
  /\ created' = 0
  /\ UNCHANGED <<store, nextOid, ver, now, acked, cvars, xvars>>

\* collection.findOne({ id }) is executed by the store: <<>> stands for null
StoreFindOne(s) ==
  /\ reqs[s].kind = "getById"
  /\ reqs[s].pc = "store"
  /\ LET id == reqs[s].id
         found == IF Matches(store, id) = {} THEN <<>> ELSE <<store[FirstMatch(store, id)]>>
     IN reqs' = [reqs EXCEPT ![s] = [@ EXCEPT !.res = found, !.snapVer = ver,
                                              !.missing = (found = <<>>),
                                              !.storeOps = @ + 1, !.pc = "resume"]]
  /\ last' = NoLast
  /\ UNCHANGED <<store, nextOid, ver, serverCache, now, nreq, fill, acked, created, cvars, xvars>>

\* lines 124-156
GetByIdResume(s) ==
  /\ reqs[s].kind = "getById"
  /\ reqs[s].pc = "resume"
  /\ LET r == reqs[s]
         skipCache == r.method = "POST"
     IN IF r.res = <<>>
          THEN /\ Complete(s, r, NotFoundResponse)
               /\ UNCHANGED <<serverCache, fill>>
          ELSE LET result == FreshResult(ToPlain(r.res[1]))
                   c1 == IF WritesCache(skipCache)
                           THEN ServerSet(serverCache, IdKey(r.id), result, CacheTime, now)
                           ELSE serverCache
               IN /\ serverCache' = c1
                  /\ fill' = IF WritesCache(skipCache)
                               THEN SetFill(c1, IdKey(r.id),
                                            [body |-> JsonItem(result), ver |-> r.snapVer])
                               ELSE fill
                  /\ Complete(s, [Touch(r, c1) EXCEPT
                                     !.sets = IF WritesCache(skipCache) THEN 1 ELSE 0],
                              Response(200, JsonItem(result)))
  /\ UNCHANGED <<store, nextOid, ver, now, nreq, acked, created, cvars, xvars>>

\* ---- create --------------------------------------------------------
\* lines 172-192: the body, the schema check, up to the store access
CreateStart(body) ==
  /\ CanStart
  /\ nreq' = nreq + 1
  /\ LET r0 == [NewReq("create", "POST", "") EXCEPT !.invalid = ~SchemaOk(body)]
     IN IF ParseThrows(body)
          THEN CompleteAtOnce(r0, FailureResponse("create"))
          ELSE Suspend([r0 EXCEPT !.data = body])
  /\ created' = 0
  /\ UNCHANGED <<store, nextOid, ver, serverCache, now, fill, acked, cvars, xvars>>

\* collection.insertOne(validatedData) is executed by the store
StoreInsertOne(s) ==
  /\ reqs[s].kind = "create"
  /\ reqs[s].pc = "store"
  /\ store' = Append(store, Spread(reqs[s].data, [_id |-> nextOid]))
  /\ nextOid' = nextOid + 1
  /\ ver' = ver + 1
  /\ reqs' = [reqs EXCEPT ![s] = [@ EXCEPT !.res = [insertedId |-> nextOid],
                                            !.snapVer = ver + 1, !.wrote = "ok",
                                            !.storeOps = @ + 1, !.pc = "resume"]]
  /\ last' = NoLast
  /\ UNCHANGED <<serverCache, now, nreq, fill, acked, created, cvars, xvars>>

\* lines 198-212
CreateResume(s) ==
  /\ reqs[s].kind = "create"
  /\ reqs[s].pc = "resume"
  /\ LET r == reqs[s]
         processedResult == Spread(r.data, [_id |-> ToString(r.res.insertedId)])
         c1 == ServerDelete(serverCache, AllKey)
     IN /\ serverCache' = c1
        /\ fill' = KeepFill(c1)
        /\ created' = IF Live(serverCache, AllKey, now) THEN r.res.insertedId ELSE created
        /\ Complete(s, [Touch(r, c1) EXCEPT !.invalidated = @ + 1],
                    Response(200, [success |-> TRUE, data |-> processedResult]))
  /\ UNCHANGED <<store, nextOid, ver, now, nreq, acked, cvars, xvars>>

\* ---- update --------------------------------------------------------
\* lines 228-250
UpdateStart(id, body) ==
  /\ CanStart
  /\ nreq' = nreq + 1
  /\ LET merged == Spread(body, [id |-> id])
         r0 == [NewReq("update", "PUT", id) EXCEPT !.invalid = ~SchemaOk(merged)]
     IN IF ParseThrows(merged)
          THEN CompleteAtOnce(r0, FailureResponse("update"))
          ELSE Suspend([r0 EXCEPT !.data = merged])
  /\ created' = 0
  /\ UNCHANGED <<store, nextOid, ver, serverCache, now, fill, acked, cvars, xvars>>

\* collection.updateOne({ id }, { $set: validatedData }) is executed by the store
StoreUpdateOne(s) ==
  /\ reqs[s].kind = "update"
  /\ reqs[s].pc = "store"
  /\ LET r == reqs[s]
     IN IF Matches(store, r.id) = {}
          THEN /\ reqs' = [reqs EXCEPT ![s] = [@ EXCEPT !.res = [matchedCount |-> 0],
                                                       !.wrote = "zero", !.missing = TRUE,
                                                       !.storeOps = @ + 1, !.pc = "resume"]]
               /\ UNCHANGED <<store, ver>>
          ELSE /\ store' = [store EXCEPT ![FirstMatch(store, r.id)] = Spread(@, r.data)]
               /\ ver' = ver + 1
               /\ reqs' = [reqs EXCEPT ![s] = [@ EXCEPT !.res = [matchedCount |-> 1],
                                                       !.snapVer = ver + 1, !.wrote = "ok",
                                                       !.storeOps = @ + 1, !.pc = "resume"]]
  /\ last' = NoLast
  /\ UNCHANGED <<nextOid, serverCache, now, nreq, fill, acked, created, cvars, xvars>>

\* lines 256-281
UpdateResume(s) ==
  /\ reqs[s].kind = "update"
  /\ reqs[s].pc = "resume"
  /\ LET r == reqs[s]
     IN IF UpdateNotFound(r.res)
          THEN /\ Complete(s, r, NotFoundResponse)
               /\ UNCHANGED <<serverCache, fill, acked>>
          ELSE LET c1 == ServerDelete(ServerDelete(serverCache, AllKey), IdKey(r.id))
               IN /\ serverCache' = c1
                  /\ fill' = KeepFill(c1)
                  /\ acked' = Max(acked, r.snapVer)
                  /\ Complete(s, [Touch(r, c1) EXCEPT !.invalidated = @ + 2],
                              Response(200, [success |-> TRUE, data |-> r.data]))
  /\ UNCHANGED <<store, nextOid, ver, now, nreq, created, cvars, xvars>>

\* ---- remove --------------------------------------------------------
\* lines 297-300
RemoveStart(id) ==
  /\ CanStart
  /\ nreq' = nreq + 1
  /\ Suspend(NewReq("remove", "DELETE", id))
  /\ created' = 0
  /\ UNCHANGED <<store, nextOid, ver, serverCache, now, fill, acked, cvars, xvars>>

\* collection.deleteOne({ id }) is executed by the store
StoreDeleteOne(s) ==
  /\ reqs[s].kind = "remove"
  /\ reqs[s].pc = "store"
  /\ LET r == reqs[s]
     IN IF Matches(store, r.id) = {}
          THEN /\ reqs' = [reqs EXCEPT ![s] = [@ EXCEPT !.res = [deletedCount |-> 0],
                                                       !.wrote = "zero", !.missing = TRUE,
                                                       !.storeOps = @ + 1, !.pc = "resume"]]
               /\ UNCHANGED <<store, ver>>
          ELSE /\ store' = RemoveAt(store, FirstMatch(store, r.id))
               /\ ver' = ver + 1
               /\ reqs' = [reqs EXCEPT ![s] = [@ EXCEPT !.res = [deletedCount |-> 1],
                                                       !.snapVer = ver + 1, !.wrote = "ok",
                                                       !.storeOps = @ + 1, !.pc = "resume"]]
  /\ last' = NoLast
  /\ UNCHANGED <<nextOid, serverCache, now, nreq, fill, acked, created, cvars, xvars>>

\* lines 305-325
RemoveResume(s) ==
  /\ reqs[s].kind = "remove"
  /\ reqs[s].pc = "resume"
  /\ LET r == reqs[s]
     IN IF RemoveNotFound(r.res)
          THEN /\ Complete(s, r, NotFoundResponse)
               /\ UNCHANGED <<serverCache, fill>>
          ELSE LET c1 == ServerDelete(ServerDelete(serverCache, AllKey), IdKey(r.id))
               IN /\ serverCache' = c1
                  /\ fill' = KeepFill(c1)
                  /\ Complete(s, [Touch(r, c1) EXCEPT !.invalidated = @ + 2],
                              Response(200, [success |-> TRUE, data |-> [id |-> r.id]]))
  /\ UNCHANGED <<store, nextOid, ver, now, nreq, acked, created, cvars, xvars>>

\* ---- refreshCache --------------------------------------------------
\* lines 341-349: the entry is deleted before the store is read
RefreshStart ==
  /\ CanStart
  /\ nreq' = nreq + 1
  /\ LET c1 == ServerDelete(serverCache, AllKey)
     IN /\ serverCache' = c1
        /\ fill' = KeepFill(c1)
        /\ Suspend(Touch([NewReq("refreshCache", "POST", "") EXCEPT
                            !.sawLive = Live(serverCache, AllKey, now)], c1))
  /\ created' = 0
  /\ UNCHANGED <<store, nextOid, ver, now, acked, cvars, xvars>>

\* a refreshCache that returns the listing without caching it
RefreshResume_NoSet(s) ==
  /\ reqs[s].kind = "refreshCache"
  /\ reqs[s].pc = "resume"
  /\ Complete(s, reqs[s], Response(200, JsonList(FreshResult(ToPlainAll(reqs[s].res)))))
  /\ UNCHANGED <<store, nextOid, ver, serverCache, now, nreq, fill, acked, created, cvars, xvars>>

\* lines 352-376
RefreshResume(s) ==
  /\ reqs[s].kind = "refreshCache"
  /\ reqs[s].pc = "resume"
  /\ LET r == reqs[s]
         result == FreshResult(ToPlainAll(r.res))
         c1 == ServerSet(serverCache, AllKey, result, CacheTime, now)
     IN /\ serverCache' = c1
        /\ fill' = SetFill(c1, AllKey, [body |-> JsonList(result), ver |-> r.snapVer])
        /\ Complete(s, [Touch(r, c1) EXCEPT !.sets = 1], Response(200, JsonList(result)))
  /\ UNCHANGED <<store, nextOid, ver, now, nreq, acked, created, cvars, xvars>>

\* ---- the clock -----------------------------------------------------
Tick ==
  /\ now < MaxTime
  /\ now' = now + 1
  /\ last' = NoLast
  /\ UNCHANGED <<store, nextOid, ver, serverCache, reqs, nreq, fill, acked, created, cvars, xvars>>

\* =====================================================================
\* server/config.ts: the connection singleton
\* =====================================================================
MaxCalls == 4        \* calls of configureCollectionHooks, getDatabase, closeConnection
MaxAwaiting == 1     \* getDatabase calls suspended on one promise

Dbs == {"D1", "D2"}

\* a configuration names, per mode, the Db that mode leads to, or null
Config(database, getDatabaseFn, mongodbUri, debug) ==
  [database |-> database, getDatabaseFn |-> getDatabaseFn, mongodbUri |-> mongodbUri,
   debug |-> debug]

Configs ==
  {Config(d, Null, Null, FALSE) : d \in Dbs}
    \cup {Config(Null, d, Null, FALSE) : d \in Dbs}
    \cup {Config(Null, Null, d, FALSE) : d \in Dbs}
    \cup {Config(Null, Null, Null, g) : g \in BOOLEAN}

Drivers == {"v4", "v3"}

ConfigMode_UriDefault(config) ==
  IF config.database # Null THEN "database"
  ELSE IF config.getDatabaseFn # Null THEN "getDatabaseFn"
  ELSE "mongodbUri"

\* the if chain of configureCollectionHooks
ConfigMode(config) ==
  IF config.database # Null THEN "database"
  ELSE IF config.getDatabaseFn # Null THEN "getDatabaseFn"
  ELSE IF config.mongodbUri # Null THEN "mongodbUri"
  ELSE "invalid"

NoPromise == [state |-> "none", value |-> Null]
NoCfgLast == [op |-> "none"]

ConnectionState == <<client, db, connectionPromise>>

ConfigInit ==
  /\ client = 0
  /\ db = Null
  /\ connectionPromise = 0
  /\ debugMode = FALSE
  /\ promises = [p \in 1..(MaxCalls + 1) |-> NoPromise]
  /\ awaiting = [p \in 1..(MaxCalls + 1) |-> 0]
  /\ closing = 0
  /\ ncalls = 0
  /\ cfgLast = NoCfgLast
  /\ latest = Null
  /\ inEffect = FALSE
  /\ closes = FALSE

\* configureCollectionHooks(config); driver: whether mongoClient.connect is a function
ConfigureCollectionHooks(config, driver) ==
  /\ ncalls < MaxCalls
  /\ ncalls' = ncalls + 1
  /\ debugMode' = config.debug
  /\ LET mode == ConfigMode(config)
         pid == ncalls + 1
         sync == mode = "mongodbUri" /\ driver = "v3"
         target == IF mode = "database" THEN config.database
                   ELSE IF mode = "getDatabaseFn" THEN config.getDatabaseFn
                   ELSE config.mongodbUri
     IN /\ db' = IF mode = "database" \/ sync THEN target ELSE db
        /\ client' = IF mode = "mongodbUri" THEN pid ELSE client
        /\ connectionPromise' = IF mode \in {"getDatabaseFn", "mongodbUri"} THEN pid
                                ELSE connectionPromise
        /\ promises' = IF mode \in {"getDatabaseFn", "mongodbUri"}
                         THEN [promises EXCEPT ![pid] =
                                 [state |-> IF sync THEN "resolved" ELSE "pending",
                                  value |-> target]]
                         ELSE promises
        /\ cfgLast' = [op |-> "configure", config |-> config, threw |-> mode = "invalid",
                       before |-> ConnectionState]
        /\ latest' = IF mode = "invalid" THEN latest ELSE target
        /\ inEffect' = (inEffect \/ mode # "invalid")
  /\ UNCHANGED <<awaiting, closing, closes, svars, cvars, hvars, mvars, avars>>

\* the promise of getDatabaseFn() or mongoClient.connect() settles: its then callback
\* runs, and after it the getDatabase calls suspended on the promise
ConnectionSettles(pid, ok) ==
  /\ promises[pid].state = "pending"
  /\ promises' = [promises EXCEPT ![pid].state = IF ok THEN "resolved" ELSE "rejected"]
  /\ db' = IF ok THEN promises[pid].value ELSE db
  /\ awaiting' = [awaiting EXCEPT ![pid] = 0]
  /\ cfgLast' = [op |-> "settle", outcome |-> IF ok THEN "resolved" ELSE "rejected",
                 value |-> IF ok THEN promises[pid].value ELSE Null,
                 resumed |-> awaiting[pid], inEffect |-> inEffect]
  /\ UNCHANGED <<client, connectionPromise, debugMode, closing, ncalls, latest, inEffect,
                 closes, svars, cvars, hvars, mvars, avars>>

\* getDatabase()
GetDatabase ==
  /\ ncalls < MaxCalls
  /\ ncalls' = ncalls + 1
  /\ IF db # Null
       THEN /\ cfgLast' = [op |-> "getDatabase", outcome |-> "resolved", value |-> db,
                           inEffect |-> inEffect]
            /\ UNCHANGED <<db, awaiting>>
       ELSE IF connectionPromise # 0
         THEN LET p == promises[connectionPromise]
              IN IF p.state = "pending"
                   THEN /\ awaiting[connectionPromise] < MaxAwaiting
                        /\ awaiting' = [awaiting EXCEPT ![connectionPromise] = @ + 1]
                        /\ cfgLast' = [op |-> "getDatabase", outcome |-> "pending",
                                       value |-> Null, inEffect |-> inEffect]
                        /\ UNCHANGED db
                   ELSE IF p.state = "resolved"
                     THEN /\ db' = p.value
                          /\ cfgLast' = [op |-> "getDatabase", outcome |-> "resolved",
                                         value |-> p.value, inEffect |-> inEffect]
                          /\ UNCHANGED awaiting
                     ELSE /\ cfgLast' = [op |-> "getDatabase", outcome |-> "rejected",
                                         value |-> "connection error", inEffect |-> inEffect]
                          /\ UNCHANGED <<db, awaiting>>
         ELSE /\ cfgLast' = [op |-> "getDatabase", outcome |-> "rejected",
                             value |-> "Database not configured", inEffect |-> inEffect]
              /\ UNCHANGED <<db, awaiting>>
  /\ UNCHANGED <<client, connectionPromise, debugMode, promises, closing, latest, inEffect,
                 closes, svars, cvars, hvars, mvars, avars>>

\* closeConnection(); how: "async" when client.close() returns a promise, "sync" when
\* close is not a function or throws
CloseConnection(how) ==
  /\ ncalls < MaxCalls
  /\ ncalls' = ncalls + 1
  /\ closes' = TRUE
  /\ IF client # 0 /\ how = "async"
       THEN /\ closing' = closing + 1
            /\ cfgLast' = [op |-> "close", outcome |-> "pending", hadClient |-> TRUE,
                           inEffect |-> inEffect]
            /\ UNCHANGED <<client, db, connectionPromise, inEffect>>
       ELSE /\ client' = 0
            /\ db' = Null
            /\ connectionPromise' = 0
            /\ inEffect' = FALSE
            /\ cfgLast' = [op |-> "close", outcome |-> "resolved", hadClient |-> client # 0,
                           inEffect |-> inEffect]
            /\ UNCHANGED closing
  /\ UNCHANGED <<debugMode, promises, awaiting, latest, svars, cvars, hvars, mvars, avars>>

\* client.close() settles: the finally callback of closeConnection
CloseSettles(ok) ==
  /\ closing > 0
  /\ closing' = closing - 1
  /\ client' = 0
  /\ db' = Null
  /\ connectionPromise' = 0
  /\ inEffect' = (inEffect /\ ~ok)
  /\ cfgLast' = [op |-> "closed", outcome |-> IF ok THEN "resolved" ELSE "rejected"]
  /\ UNCHANGED <<debugMode, promises, awaiting, ncalls, latest, closes, svars, cvars, hvars, mvars, avars>>

ConfigNext ==
  \/ \E c \in Configs, d \in Drivers : ConfigureCollectionHooks(c, d)
  \/ \E p \in 1..(MaxCalls + 1), ok \in BOOLEAN : ConnectionSettles(p, ok)
  \/ GetDatabase
  \/ \E how \in {"async", "sync"} : CloseConnection(how)
  \/ \E ok \in BOOLEAN : CloseSettles(ok)

\* =====================================================================
\* hooks: useCollectionQuery, useCollection, useCollectionMutation
\* =====================================================================
MaxFetches == 2      \* fetch calls of url changes, refetch and refresh
MaxMounts == 2       \* mounts of the component
MaxHookTime == 2     \* clock steps while a hook is observed
MaxMutations == 3    \* mutate calls

Urls == {"u1", "u2"}
Endpoint == "u1"     \* the endpoint '/api/services'

\* `collection:${collectionName}`
\* '/api/services'.split('/')
EndpointPath == <<"", "api", CollectionName>>

\* endpoint.split('/').pop() || ''
LastSegment(path) == IF path = <<>> THEN <<>> ELSE path[Len(path)]

ClientKeyOf_All(name) == <<"collection", name, "all">>

\* `collection:${collectionName}`
ClientKeyOf(name) == <<"collection", name>>

ClientKey == ClientKeyOf(LastSegment(EndpointPath))

Item(id, title) == [id |-> id, title |-> title]

Payloads == {<<Item("1", "A")>>, <<Item("1", "B")>>}

\* a response body { success, data }: hasData is false when data is missing
Body(success, hasData, items) == [success |-> success, hasData |-> hasData, data |-> items]

NoBody == Body(FALSE, FALSE, <<>>)

Bodies == {Body(TRUE, TRUE, p) : p \in Payloads} \cup {NoBody}

\* how a fetch settles: a 2xx response with a JSON body, a non-2xx response, or a
\* rejection of fetch itself
Outcomes ==
  {[kind |-> "json", status |-> 200, body |-> b] : b \in Bodies}
    \cup {[kind |-> "http", status |-> 500, body |-> NoBody],
          [kind |-> "http", status |-> 404, body |-> NoBody],
          [kind |-> "network", status |-> 0, body |-> NoBody]}

\* the outcomes told apart by useCollection, which keeps no status
CollectionOutcomes == {o \in Outcomes : o.status # 404}

NoData == [null |-> TRUE]
Loaded(v) == [null |-> FALSE, value |-> v]

NetworkError == "Failed to fetch"

HttpError_Generic(status) == "HTTP error!"

\* new Error(`HTTP error! Status: ${response.status}`)
HttpError(status) ==
  IF status = 500 THEN "HTTP error! Status: 500"
  ELSE IF status = 404 THEN "HTTP error! Status: 404"
  ELSE "HTTP error! Status: ?"

\* the error the catch block sees
FailureOf(o) == IF o.kind = "network" THEN NetworkError ELSE HttpError(o.status)

\* the options argument; fieldMappings "omitted" takes the default {} of the
\* destructuring, a new object on every render
Options(standardizeFields, cacheTime, fieldMappings, transformResponse) ==
  [standardizeFields |-> standardizeFields, cacheTime |-> cacheTime,
   fieldMappings |-> fieldMappings, transformResponse |-> transformResponse]

DefaultOptions == Options(TRUE, DefaultTTL, "omitted", FALSE)


GivenMappings == << <<"title", "label">> >>

MappingsOf(opts) == IF opts.fieldMappings = "omitted" THEN FieldMappings ELSE GivenMappings

\* the (initialData, options) arguments of the mounts
MountArgs ==
  {<<<<>>, DefaultOptions>>,
   <<<<Item("2", "A")>>, Options(FALSE, 1, "omitted", FALSE)>>,
   <<<<Item("2", "A")>>, Options(TRUE, 1, "given", TRUE)>>}

StandardizeItems(items, entityType, customMappings) ==
  [i \in 1..Len(items) |-> StandardizeFields(items[i], entityType, customMappings)]

\* a transformResponse function of the caller
TransformResponse(items) == [i \in 1..Len(items) |-> SetField(items[i], "seen", "yes")]

\* standardizeItems when enabled, then transformResponse when given
Process(items, opts) ==
  IF opts.transformResponse
    THEN TransformResponse(
           IF opts.standardizeFields
             THEN StandardizeItems(items, GetEntityType(CollectionName), MappingsOf(opts))
             ELSE items)
    ELSE IF opts.standardizeFields
      THEN StandardizeItems(items, GetEntityType(CollectionName), MappingsOf(opts))
      ELSE items

\* serverData?.success && serverData.data, result.success && result.data
HasItems(body) == body.success /\ body.hasData

\* refresh applies the response: no throw before it, and result.success && result.data
RefreshApplies(o) == o.kind = "json" /\ HasItems(o.body)

\* the loading of the object useCollection returns
ExposedLoading == loading \/ isRefreshing

EffectFires(d) == ~d.null /\ HasItems(d.value)

\* the dependency array of the server-data effect keeps its identity across renders
StableDeps(opts) == opts.fieldMappings # "omitted"

\* with changing dependencies the effect sets a new array on every run, and every
\* run renders again
Looping(opts, d) ==
  ~StableDeps(opts) /\ (opts.standardizeFields \/ opts.transformResponse) /\ EffectFires(d)

NoHLast == [op |-> "none"]

HookInit ==
  /\ hook = "none"
  /\ inst = 0
  /\ url = Null
  /\ serverData = NoData
  /\ error = Null
  /\ loading = FALSE
  /\ options = DefaultOptions
  /\ initialData = <<>>
  /\ cachedData = <<>>
  /\ isRefreshing = FALSE
  /\ requests = {}
  /\ nfetch = 0
  /\ nlater = 0
  /\ seed = NoData
  /\ applied = FALSE
  /\ hLast = NoHLast

\* overlap: another fetch of the same instance is in flight when this one is issued
Request(kind, i, u, opts) ==
  [id |-> nfetch + 1, kind |-> kind, inst |-> i, url |-> u, opts |-> opts,
   overlap |-> hook # "none" /\ i = inst /\ \E q \in requests : q.inst = i]

\* the request belongs to the mounted instance
LiveRequest(r) == hook # "none" /\ r.inst = inst

Commit_Reset(cd, cache, fresh) ==
  /\ cachedData' = IF serverData'.null THEN initialData ELSE cd
  /\ clientCache' = cache
  /\ applied' = applied

\* the commit after the handler's own state changes (cd, cache): the server-data
\* effect of useCollection runs when serverData is a new object (fresh) and, with
\* changing dependencies, after every render
Commit(cd, cache, fresh) ==
  LET changed == \/ <<serverData', error', loading', isRefreshing'>> #
                      <<serverData, error, loading, isRefreshing>>
                 \/ cd # cachedData
      runs == /\ hook' = "collection"
              /\ (fresh \/ (~StableDeps(options') /\ changed))
              /\ EffectFires(serverData')
  IN /\ cachedData' = IF runs THEN Process(serverData'.value.data, options') ELSE cd
     /\ clientCache' = IF runs
                         THEN CacheSet(cache, ClientKey, Process(serverData'.value.data, options'),
                                       options'.cacheTime, clock')
                         ELSE cache
     /\ applied' = (applied \/ runs \/ cd # cachedData)

\* first render and mount effects of a component that calls useCollectionQuery(u)
MountQuery(u) ==
  /\ hook = "none"
  /\ inst < MaxMounts
  /\ hook' = "query"
  /\ inst' = inst + 1
  /\ url' = u
  /\ serverData' = NoData
  /\ error' = Null
  /\ loading' = TRUE
  /\ requests' = IF u # Null THEN requests \cup {Request("query", inst + 1, u, options)}
                 ELSE requests
  /\ nfetch' = IF u # Null THEN nfetch + 1 ELSE nfetch
  /\ hLast' = [op |-> "mount", fetched |-> u # Null, before |-> nfetch]
  /\ UNCHANGED <<options, initialData, cachedData, isRefreshing, nlater, seed, applied,
                 svars, cvars, kvars, mvars, avars>>

\* a render with another url argument, and the effect that depends on it
SetUrl(u) ==
  /\ hook = "query"
  /\ u # url
  /\ u # Null => nlater < MaxFetches
  /\ url' = u
  /\ loading' = IF u # Null THEN TRUE ELSE loading
  /\ requests' = IF u # Null THEN requests \cup {Request("query", inst, u, options)}
                 ELSE requests
  /\ nfetch' = IF u # Null THEN nfetch + 1 ELSE nfetch
  /\ nlater' = IF u # Null THEN nlater + 1 ELSE nlater
  /\ hLast' = [op |-> "url", fetched |-> u # Null, before |-> nfetch]
  /\ UNCHANGED <<hook, inst, serverData, error, options, initialData, cachedData, isRefreshing,
                 seed, applied, svars, cvars, kvars, mvars, avars>>

\* refetch()
Refetch ==
  /\ hook \in {"query", "collection"}
  /\ url # Null => nlater < MaxFetches
  /\ loading' = IF url # Null THEN TRUE ELSE loading
  /\ requests' = IF url # Null THEN requests \cup {Request("query", inst, url, options)}
                 ELSE requests
  /\ nfetch' = IF url # Null THEN nfetch + 1 ELSE nfetch
  /\ nlater' = IF url # Null THEN nlater + 1 ELSE nlater
  /\ hLast' = [op |-> "refetch", fetched |-> url # Null, before |-> nfetch]
  /\ UNCHANGED <<hook, inst, url, serverData, error, options, initialData, isRefreshing, seed,
                 clock, ret, hist, svars, kvars, mvars, avars>>
  /\ Commit(cachedData, clientCache, FALSE)

\* the fetch of fetchData settles: the rest of fetchData
QuerySettles(r, o) ==
  /\ r \in requests
  /\ r.kind = "query"
  /\ requests' = requests \ {r}
  /\ serverData' = IF ~LiveRequest(r) THEN serverData
             ELSE IF o.kind = "json" THEN Loaded(o.body) ELSE NoData
  /\ error' = IF ~LiveRequest(r) THEN error
              ELSE IF o.kind = "json" THEN Null ELSE FailureOf(o)
  /\ loading' = IF ~LiveRequest(r) THEN loading ELSE FALSE
  /\ hLast' = IF LiveRequest(r)
                THEN [op |-> "settle", kind |-> "query", outcome |-> o, live |-> TRUE,
                      shown |-> cachedData, entries |-> clientCache,
                      overlapped |-> r.overlap \/ \E q \in requests \ {r} : q.inst = inst]
                ELSE [op |-> "settle", kind |-> "query", live |-> FALSE]
  /\ UNCHANGED <<hook, inst, url, options, initialData, isRefreshing, nfetch, nlater,
                 seed, clock, ret, hist, svars, kvars, mvars, avars>>
  /\ Commit(cachedData, clientCache, LiveRequest(r) /\ o.kind = "json")

\* first render and mount effects of a component that calls
\* useCollection(Endpoint, initial, opts): the fetch of the query hook, then the
\* lookup of the client cache
MountCollection(initial, opts) ==
  /\ hook = "none"
  /\ inst < MaxMounts
  /\ hook' = "collection"
  /\ inst' = inst + 1
  /\ url' = Endpoint
  /\ serverData' = NoData
  /\ error' = Null
  /\ loading' = TRUE
  /\ options' = opts
  /\ initialData' = initial
  /\ isRefreshing' = FALSE
  /\ requests' = requests \cup {Request("query", inst + 1, Endpoint, opts)}
  /\ nfetch' = nfetch + 1
  /\ seed' = CacheGetValue(clientCache, ClientKey, clock)
  /\ cachedData' = IF seed'.null THEN initial ELSE seed'.value
  /\ clientCache' = CacheGetCache(clientCache, ClientKey, clock)
  /\ applied' = FALSE
  /\ hLast' = [op |-> "mount", fetched |-> TRUE, before |-> nfetch, entries |-> clientCache]
  /\ UNCHANGED <<nlater, clock, ret, hist, svars, kvars, mvars, avars>>

\* refresh() up to its fetch
RefreshCall ==
  /\ hook = "collection"
  /\ nlater < MaxFetches
  /\ isRefreshing' = TRUE
  /\ requests' = requests \cup {Request("refresh", inst, Endpoint, options)}
  /\ nfetch' = nfetch + 1
  /\ nlater' = nlater + 1
  /\ hLast' = [op |-> "refresh", fetched |-> TRUE]
  /\ UNCHANGED <<hook, inst, url, serverData, error, loading, options, initialData, seed,
                 clock, ret, hist, svars, kvars, mvars, avars>>
  /\ Commit(cachedData, clientCache, FALSE)

\* the fetch of refresh settles: the rest of refresh, with the options its closure
\* holds; the state setters of an unmounted instance do nothing
RefreshSettles(r, o) ==
  /\ r \in requests
  /\ r.kind = "refresh"
  /\ requests' = requests \ {r}
  /\ isRefreshing' = IF LiveRequest(r) THEN FALSE ELSE isRefreshing
  /\ hLast' = IF LiveRequest(r)
                THEN [op |-> "settle", kind |-> "refresh", outcome |-> o, live |-> TRUE,
                      shown |-> cachedData, entries |-> clientCache,
                      promise |-> "resolved", logged |-> o.kind # "json",
                      overlapped |-> r.overlap \/ \E q \in requests \ {r} : q.inst = inst]
                ELSE [op |-> "settle", kind |-> "refresh", live |-> FALSE]
  /\ UNCHANGED <<hook, inst, url, serverData, error, loading, options, initialData, nfetch,
                 nlater, seed, clock, ret, hist, svars, kvars, mvars, avars>>
  /\ IF RefreshApplies(o)
       THEN /\ Commit(IF LiveRequest(r) THEN Process(o.body.data, r.opts) ELSE cachedData,
                      CacheSet(clientCache, ClientKey, Process(o.body.data, r.opts),
                               r.opts.cacheTime, clock),
                      FALSE)
       ELSE /\ Commit(cachedData, clientCache, FALSE)

\* the component unmounts; its requests stay in flight
Unmount ==
  /\ hook # "none"
  /\ hook' = "none"
  /\ url' = Null
  /\ serverData' = NoData
  /\ error' = Null
  /\ loading' = FALSE
  /\ options' = DefaultOptions
  /\ initialData' = <<>>
  /\ cachedData' = <<>>
  /\ isRefreshing' = FALSE
  /\ seed' = NoData
  /\ applied' = FALSE
  /\ hLast' = [op |-> "unmount"]
  /\ UNCHANGED <<inst, requests, nfetch, nlater, svars, cvars, kvars, mvars, avars>>

\* time passes; a looping effect keeps setting the entry
HookTick ==
  /\ clock < MaxHookTime
  /\ clock' = clock + 1
  /\ clientCache' = IF hook = "collection" /\ Looping(options, serverData)
                      THEN CacheSet(clientCache, ClientKey, cachedData, options.cacheTime,
                                    clock + 1)
                      ELSE clientCache
  /\ hLast' = NoHLast
  /\ UNCHANGED <<hook, inst, url, serverData, error, loading, options, initialData, cachedData,
                 isRefreshing, requests, nfetch, nlater, seed, applied, ret, hist, svars,
                 kvars, mvars, avars>>

QueryNext ==
  \/ \E u \in Urls \cup {Null} : MountQuery(u)
  \/ \E u \in Urls \cup {Null} : SetUrl(u)
  \/ Refetch
  \/ \E r \in requests, o \in Outcomes : QuerySettles(r, o)
  \/ Unmount

CollectionNext ==
  \/ \E a \in MountArgs : MountCollection(a[1], a[2])
  \/ Refetch
  \/ RefreshCall
  \/ \E r \in requests, o \in CollectionOutcomes : QuerySettles(r, o)
  \/ \E r \in requests, o \in CollectionOutcomes : RefreshSettles(r, o)
  \/ Unmount
  \/ HookTick

\* ------------------------------------------------ useCollectionMutation
MutationBodies == {"b1", "b2"}

NoMutLast == [op |-> "none"]

MutationInit ==
  /\ mutData = NoData
  /\ mutError = Null
  /\ mutLoading = FALSE
  /\ mutRequests = {}
  /\ nmut = 0
  /\ mutLast = NoMutLast

\* mutate(body) up to its fetch
Mutate(body) ==
  /\ nmut < MaxMutations
  /\ nmut' = nmut + 1
  /\ mutLoading' = TRUE
  /\ mutRequests' = mutRequests \cup {[id |-> nmut + 1, body |-> body]}
  /\ mutLast' = [op |-> "mutate", id |-> nmut + 1]
  /\ UNCHANGED <<mutData, mutError, svars, cvars, kvars, hvars, avars>>

\* the fetch of mutate settles: the rest of mutate
MutateSettles(r, o) ==
  /\ r \in mutRequests
  /\ mutRequests' = mutRequests \ {r}
  /\ mutData' = IF o.kind = "json" THEN Loaded(o.body) ELSE NoData
  /\ mutError' = IF o.kind = "json" THEN Null ELSE FailureOf(o)
  /\ mutLoading' = FALSE
  /\ mutLast' = [op |-> "settle", id |-> r.id, outcome |-> o,
                 promise |-> IF o.kind = "json" THEN "resolved" ELSE "rejected",
                 value |-> IF o.kind = "json" THEN Loaded(o.body) ELSE NoData,
                 reason |-> IF o.kind = "json" THEN Null ELSE FailureOf(o)]
  /\ UNCHANGED <<nmut, svars, cvars, kvars, hvars, avars>>

MutationNext ==
  \/ \E body \in MutationBodies : Mutate(body)
  \/ \E r \in mutRequests, o \in Outcomes : MutateSettles(r, o)


\* ---- useAllCollections ---------------------------------------------
MaxRefreshAll == 2

\* Object.entries(endpoints): the keys of the endpoints object, in its order
EndpointKeys == <<"services", "posts">>

Instances == 1..Len(EndpointKeys)

\* how the fetch of an instance settles, as far as loading and error go
AllOutcomes ==
  {[kind |-> "json", status |-> 200, body |-> Body(TRUE, TRUE, <<>>)],
   [kind |-> "http", status |-> 500, body |-> NoBody],
   [kind |-> "network", status |-> 0, body |-> NoBody]}

\* the state of a useCollection instance that useAllCollections reads or waits for
Instance(l, r, e) == [loading |-> l, isRefreshing |-> r, error |-> e]

\* loading: loading || isRefreshing of the object useCollection returns
Exposed(c) == [loading |-> c.loading \/ c.isRefreshing, error |-> c.error]

\* collections.some(collection => collection.loading)
SomeLoading(cs) == \E i \in 1..Len(cs) : Exposed(cs[i]).loading

RECURSIVE FindError_Last(_, _)
FindError_Last(cs, i) ==
  IF i > Len(cs) THEN Null
  ELSE IF FindError_Last(cs, i + 1) # Null THEN FindError_Last(cs, i + 1)
  ELSE Exposed(cs[i]).error

\* collections.find(collection => collection.error)?.error || null, searching from i
RECURSIVE FindError(_, _)
FindError(cs, i) ==
  IF i > Len(cs) THEN Null
  ELSE IF Exposed(cs[i]).error # Null THEN Exposed(cs[i]).error
  ELSE FindError(cs, i + 1)

\* the loading and error of the object useAllCollections returns
Render(cs) == [loading |-> SomeLoading(cs), error |-> FindError(cs, 1)]

RefreshPromise_Rethrow(o) == IF o.kind = "json" THEN "fulfilled" ELSE "rejected"

\* the promise of refresh(): the catch block logs the failure and returns
RefreshPromise(o) == "fulfilled"

\* Promise.all over the promises of one refreshAll call
PromiseAll(ps) ==
  IF \E k \in DOMAIN ps : ps[k] = "rejected" THEN "rejected"
  ELSE IF \A k \in DOMAIN ps : ps[k] = "fulfilled" THEN "fulfilled"
  ELSE "pending"

NoAllLast == [op |-> "none"]

AllInit ==
  /\ allHook = "none"
  /\ collections = [k \in Instances |-> Instance(FALSE, FALSE, Null)]
  /\ allRequests = {}
  /\ allCalls = <<>>
  /\ allOut = Render([k \in Instances |-> Instance(FALSE, FALSE, Null)])
  /\ allLast = NoAllLast

\* the first render and its effects: every instance issues the fetch of its query
MountAll ==
  /\ allHook = "none"
  /\ allHook' = "mounted"
  /\ LET cs == [k \in Instances |-> Instance(TRUE, FALSE, Null)]
     IN /\ collections' = cs
        /\ allOut' = Render(cs)
  /\ allRequests' = {[call |-> 0, key |-> k, kind |-> "query"] : k \in Instances}
  /\ allLast' = [op |-> "mount"]
  /\ UNCHANGED <<allCalls, svars, cvars, kvars, hvars, mvars>>

\* the query fetch of an instance settles
AllQuerySettles(r, o) ==
  /\ r \in allRequests
  /\ r.kind = "query"
  /\ allRequests' = allRequests \ {r}
  /\ IF allHook = "mounted"
       THEN LET cs == [collections EXCEPT ![r.key] =
                         Instance(FALSE, @.isRefreshing,
                                  IF o.kind = "json" THEN Null ELSE FailureOf(o))]
            IN /\ collections' = cs
               /\ allOut' = Render(cs)
       ELSE UNCHANGED <<collections, allOut>>
  /\ allLast' = [op |-> "querySettle", key |-> r.key, outcome |-> o]
  /\ UNCHANGED <<allHook, allCalls, svars, cvars, kvars, hvars, mvars>>

\* refreshAll(): refresh() of every instance up to its await fetch, then the await
\* of Promise.all
RefreshAll ==
  /\ allHook = "mounted"
  /\ Len(allCalls) < MaxRefreshAll
  /\ LET c == Len(allCalls) + 1
         cs == [k \in Instances |-> Instance(collections[k].loading, TRUE, collections[k].error)]
         ps == [k \in Instances |-> "pending"]
     IN /\ collections' = cs
        /\ allOut' = Render(cs)
        /\ allRequests' = allRequests \cup {[call |-> c, key |-> k, kind |-> "refresh"] : k \in Instances}
        /\ allCalls' = Append(allCalls, [promises |-> ps, state |-> PromiseAll(ps), failed |-> {}])
        /\ allLast' = [op |-> "refreshAll", call |-> c]
  /\ UNCHANGED <<allHook, svars, cvars, kvars, hvars, mvars>>

\* the fetch of a refresh settles: the finally block, then the promise of refresh
\* and with it Promise.all of its refreshAll call
AllRefreshSettles(r, o) ==
  /\ r \in allRequests
  /\ r.kind = "refresh"
  /\ allRequests' = allRequests \ {r}
  /\ IF allHook = "mounted"
       THEN LET cs == [collections EXCEPT ![r.key] = Instance(@.loading, FALSE, @.error)]
            IN /\ collections' = cs
               /\ allOut' = Render(cs)
       ELSE UNCHANGED <<collections, allOut>>
  /\ LET ps == [allCalls[r.call].promises EXCEPT ![r.key] = RefreshPromise(o)]
         st == IF allCalls[r.call].state = "pending" THEN PromiseAll(ps) ELSE allCalls[r.call].state
     IN allCalls' = [allCalls EXCEPT ![r.call] =
                       [promises |-> ps, state |-> st,
                        failed |-> IF RefreshApplies(o) THEN @.failed ELSE @.failed \cup {r.key}]]
  /\ allLast' = [op |-> "refreshSettle", call |-> r.call, key |-> r.key, outcome |-> o]
  /\ UNCHANGED <<allHook, svars, cvars, kvars, hvars, mvars>>

\* the component unmounts: later settles set no state
UnmountAll ==
  /\ allHook = "mounted"
  /\ allHook' = "gone"
  /\ allLast' = [op |-> "unmount"]
  /\ UNCHANGED <<collections, allRequests, allCalls, allOut, svars, cvars, kvars, hvars, mvars>>

AllNext ==
  \/ MountAll
  \/ \E r \in allRequests, o \in AllOutcomes : AllQuerySettles(r, o)
  \/ RefreshAll
  \/ \E r \in allRequests, o \in AllOutcomes : AllRefreshSettles(r, o)
  \/ UnmountAll

\* ---- the server ----------------------------------------------------
Keys == {AllKey} \cup {IdKey(i) : i \in Ids}

Init ==
  /\ store \in InitStores
  /\ nextOid = 2
  /\ ver = 0
  /\ serverCache = ServerSet(EmptyCache, OtherKey, OtherResult, CacheTime, 0)
  /\ now = 0
  /\ reqs = [s \in Slots |-> NoReq]
  /\ nreq = 0
  /\ last = NoLast
  /\ fill = [k \in {OtherKey} |-> [body |-> OtherResult, ver |-> 0]]
  /\ acked = 0
  /\ created = 0
  /\ CacheInit
  /\ ConfigInit
  /\ HookInit
  /\ MutationInit
  /\ AllInit

Next ==
  \/ \E m \in {"GET", "POST"} : GetAllStart(m)
  \/ \E m \in {"GET", "POST"}, i \in Ids : GetByIdStart(m, i)
  \/ \E b \in CreateBodies : CreateStart(b)
  \/ \E i \in Ids, b \in UpdateBodies : UpdateStart(i, b)
  \/ \E i \in Ids : RemoveStart(i)
  \/ RefreshStart
  \/ \E s \in Slots : \/ StoreFind(s)
                      \/ StoreFindOne(s)
                      \/ StoreInsertOne(s)
                      \/ StoreUpdateOne(s)
                      \/ StoreDeleteOne(s)
                      \/ StoreFail(s)
                      \/ GetAllResume(s)
                      \/ GetByIdResume(s)
                      \/ CreateResume(s)
                      \/ UpdateResume(s)
                      \/ RemoveResume(s)
                      \/ RefreshResume(s)
  \/ Tick

Spec == Init /\ [][Next]_vars

\* the ids of context.params.id, the path segment "all" among them
KeyIds == {"1", "all"}

KeyNext ==
  \/ GetAllStart("GET")
  \/ \E i \in KeyIds : GetByIdStart("GET", i)
  \/ CreateStart([id |-> "2", title |-> "B"])
  \/ \E i \in KeyIds : UpdateStart(i, [title |-> "B"])
  \/ \E i \in KeyIds : RemoveStart(i)
  \/ RefreshStart
  \/ \E s \in Slots : \/ StoreFind(s)
                      \/ StoreFindOne(s)
                      \/ StoreInsertOne(s)
                      \/ StoreUpdateOne(s)
                      \/ StoreDeleteOne(s)
                      \/ GetAllResume(s)
                      \/ GetByIdResume(s)
                      \/ CreateResume(s)
                      \/ UpdateResume(s)
                      \/ RemoveResume(s)
                      \/ RefreshResume(s)
  \/ Tick

KeySpec == Init /\ [][KeyNext]_vars

CacheSpec == Init /\ [][CacheNext]_vars

ConfigSpec == Init /\ [][ConfigNext]_vars

QuerySpec == Init /\ [][QueryNext]_vars

CollectionSpec == Init /\ [][CollectionNext]_vars

MutationSpec == Init /\ [][MutationNext]_vars

AllSpec == Init /\ [][AllNext]_vars

\* ===================================================================
\* Claims about the server handlers (specification Spec)
\* ===================================================================
InFlight == {reqs[s] : s \in {u \in Slots : reqs[u].kind # Idle}}

Completed(kinds) == last.kind \in kinds

Oids(list) == {list[i]._id : i \in 1..Len(list)}

\* C1 (as claimed): a GET getAll that starts after an update returned success never
\* answers with a listing read before that update landed, and the entry
\* collection:<name>:all is absent or holds a listing read after the update landed.
C1_NoStaleListing ==
  /\ (Completed({"getAll"}) /\ last.method = "GET" /\ last.resp.status = 200)
       => last.snapVer >= last.startAcked
  /\ AllKey \in DOMAIN serverCache => fill[AllKey].ver >= acked

\* C2: create, update and remove call cache.delete, and change the cache at all,
\* only once the store write of the same request was acknowledged as successful:
\* never before the write, never after a failed validation, a store error or a
\* write that matched no document.
C2_InvalidateAfterWrite ==
  \A r \in InFlight \cup {last} :
    r.kind \in {"create", "update", "remove"} =>
      ((r.invalidated > 0 \/ r.touchedKeys # {}) => r.wrote = "ok")

C2_Witness ==
  /\ Completed({"update"})
  /\ last.wrote = "ok"
  /\ last.invalidated = 2
  /\ last.touchedKeys = {AllKey, IdKey(last.id)}

\* C5: an update or remove whose store operation matched no document answers 404
\* with success false and changes no cache entry (it calls no cache.delete).
C5_NotFoundLeavesCache ==
  (Completed({"update", "remove"}) /\ last.missing) =>
    /\ last.resp.status = 404
    /\ ~last.resp.body.success
    /\ last.touchedKeys = {}
    /\ last.invalidated = 0

C5_Witness ==
  /\ Completed({"update", "remove"})
  /\ last.missing
  /\ last.resp.status = 404
  /\ {AllKey, IdKey(last.id)} \subseteq DOMAIN serverCache

\* C6 (as claimed, what the caller sees of it): when the first request after a
\* successful create that found collection:<name>:all live is a GET getAll, the
\* listing it answers with contains the created document (unless a concurrent
\* remove has taken the document out of the store again).
C6_NextGetAllHasCreated ==
  (Completed({"getAll"}) /\ last.method = "GET" /\ last.afterCreate # 0
     /\ last.resp.status = 200) =>
    \/ ToString(last.afterCreate) \in Oids(last.resp.body.data)
    \/ last.afterCreate \notin Oids(store)

\* C7: a GET getAll that finds a live entry under collection:<name>:all answers 200
\* without any store access, with the data of the response that populated the entry.
C7_HitServesCache ==
  (Completed({"getAll"}) /\ last.method = "GET" /\ last.sawLive) =>
    /\ last.storeOps = 0
    /\ last.resp.status = 200
    /\ last.resp.body.data = fill[AllKey].body.data

C7_Witness ==
  /\ Completed({"getAll"})
  /\ last.method = "GET"
  /\ last.sawLive
  /\ Len(last.resp.body.data) = 2
  /\ last.resp.body.data # JsonAll(ToPlainAll(store))

\* C8 (as claimed): a successful GET getAll is tagged cached: true exactly when it
\* was served from the cache.
C8_CachedFlag ==
  (Completed({"getAll"}) /\ last.method = "GET" /\ last.resp.status = 200) =>
    last.resp.body.cached = last.sawLive

\* C9 (as claimed): after a successful POST getAll, collection:<name>:all holds the
\* listing that request read, expiring cacheTime from now.
C9_BypassWritesCache ==
  (Completed({"getAll"}) /\ last.method = "POST" /\ last.resp.status = 200) =>
    /\ AllKey \in DOMAIN serverCache
    /\ JsonList(serverCache[AllKey].data) = last.resp.body
    /\ serverCache[AllKey].expiresAt = now + CacheTime

\* C9 (amended): a POST getAll always reads the store and neither reads nor writes
\* the cache: every entry, collection:<name>:all included, stays as it was.
C9_BypassLeavesCache ==
  (Completed({"getAll"}) /\ last.method = "POST") =>
    /\ last.storeOps > 0
    /\ last.touchedKeys = {}

C9_Witness ==
  /\ Completed({"getAll"})
  /\ last.method = "POST"
  /\ last.resp.status = 200
  /\ last.sawLive
  /\ Live(serverCache, AllKey, now)
  /\ JsonList(serverCache[AllKey].data) # last.resp.body

\* C10 (as claimed): a getAll or getById whose store access failed answers 500
\* with success false and has added, replaced or removed no cache entry.
C10_FailureLeavesCache ==
  (Completed({"getAll", "getById"}) /\ last.storeFailed) =>
    /\ last.resp.status = 500
    /\ ~last.resp.body.success
    /\ last.touchedKeys = {}

OwnKey(r) == IF r.kind = "getById" THEN IdKey(r.id) ELSE AllKey

\* C10 (amended): such a request answers 500 with success false and has added,
\* replaced or removed no live entry; the one change it can have made is the lazy
\* eviction, by the cache read of a GET, of the already expired entry under its
\* own key.
C10_FailureLeavesLiveCache ==
  (Completed({"getAll", "getById"}) /\ last.storeFailed) =>
    /\ last.resp.status = 500
    /\ ~last.resp.body.success
    /\ ~last.touchedLive
    /\ last.touchedKeys \subseteq {OwnKey(last)}
    /\ last.touchedKeys # {} => last.method = "GET"

C10_Witness ==
  /\ Completed({"getAll", "getById"})
  /\ last.storeFailed
  /\ last.touchedKeys # {}

\* C11: with validateOnWrite on, a create or update whose payload fails the schema
\* check performs no store operation and no cache.delete, changes no cache entry,
\* and is answered with a failure response.
C11_InvalidPayloadStopsWrite ==
  /\ \A r \in InFlight \cup {last} :
       (r.kind \in {"create", "update"} /\ ValidateOnWrite /\ r.invalid) =>
         /\ r.storeOps = 0
         /\ r.wrote = "none"
         /\ r.invalidated = 0
         /\ r.touchedKeys = {}
  /\ (Completed({"create", "update"}) /\ ValidateOnWrite /\ last.invalid) =>
       /\ last.resp.status = 500
       /\ ~last.resp.body.success

C11_Witness ==
  /\ Completed({"update"})
  /\ last.invalid
  /\ last.resp.status = 500
  /\ {AllKey, IdKey(last.id)} \subseteq DOMAIN serverCache
  /\ Matches(store, last.id) # {}

\* C12: a refreshCache always accesses the store, whether or not a live entry was
\* under collection:<name>:all; when it answers 200 the entry holds the listing it
\* read (the store's content at that read) and expires cacheTime from now.
C12_RefreshRepopulates ==
  Completed({"refreshCache"}) =>
    /\ last.storeOps = 1
    /\ last.resp.status = 200 =>
         /\ AllKey \in DOMAIN serverCache
         /\ JsonList(serverCache[AllKey].data) = last.resp.body
         /\ serverCache[AllKey].timestamp = now
         /\ serverCache[AllKey].expiresAt = now + CacheTime
         /\ last.snapVer = ver => last.resp.body.data = JsonAll(ToPlainAll(store))

C12_Witness ==
  /\ Completed({"refreshCache"})
  /\ last.resp.status = 200
  /\ last.sawLive
  /\ now = 1
  /\ Len(last.resp.body.data) = 2

\* C13 (as claimed): a refreshCache whose store access failed answers 500 with
\* success false, and an entry that was live under collection:<name>:all when the
\* call started has not been changed by it.
C13_RefreshFailureLeavesCache ==
  (Completed({"refreshCache"}) /\ last.storeFailed) =>
    /\ last.resp.status = 500
    /\ ~last.resp.body.success
    /\ last.sawLive => AllKey \notin last.touchedKeys

\* C14 (as claimed): a getById whose findOne found no document answers 404 with
\* success false and sets no cache entry; one that found the document leaves it
\* cached under collection:<name>:<id>; a GET that finds that entry live is answered
\* from it without store access.
C14_GetByIdCaches ==
  /\ (Completed({"getById"}) /\ last.missing) =>
       /\ last.resp.status = 404
       /\ ~last.resp.body.success
       /\ last.sets = 0
  /\ (Completed({"getById"}) /\ last.storeOps = 1 /\ last.resp.status = 200) =>
       /\ IdKey(last.id) \in DOMAIN serverCache
       /\ JsonItem(serverCache[IdKey(last.id)].data) = last.resp.body
       /\ serverCache[IdKey(last.id)].expiresAt = now + CacheTime
  /\ (Completed({"getById"}) /\ last.method = "GET" /\ last.sawLive) =>
       /\ last.storeOps = 0
       /\ last.resp.status = 200
       /\ last.resp.body.data = fill[IdKey(last.id)].body.data

\* C14 (amended): as claimed, except that only a GET getById caches the document it
\* found; a POST getById reads the store and leaves every cache entry as it was.
C14_GetByIdCachesOnGet ==
  /\ (Completed({"getById"}) /\ last.missing) =>
       /\ last.resp.status = 404
       /\ ~last.resp.body.success
       /\ last.sets = 0
  /\ (Completed({"getById"}) /\ last.method = "GET" /\ last.storeOps = 1
        /\ last.resp.status = 200) =>
       /\ IdKey(last.id) \in DOMAIN serverCache
       /\ JsonItem(serverCache[IdKey(last.id)].data) = last.resp.body
       /\ serverCache[IdKey(last.id)].expiresAt = now + CacheTime
  /\ (Completed({"getById"}) /\ last.method = "POST") =>
       /\ last.storeOps = 1
       /\ last.touchedKeys = {}
  /\ (Completed({"getById"}) /\ last.method = "GET" /\ last.sawLive) =>
       /\ last.storeOps = 0
       /\ last.resp.status = 200
       /\ last.resp.body.data = fill[IdKey(last.id)].body.data

C14_Witness ==
  /\ Completed({"getById"})
  /\ last.method = "GET"
  /\ last.missing
  /\ last.resp.status = 404
  /\ \E i \in Ids \ {last.id} : Live(serverCache, IdKey(i), now)

\* C15: a successful update(id) or remove(id) removes collection:<name>:all and
\* collection:<name>:<id> and changes no other entry; a successful create removes
\* collection:<name>:all and changes no other entry; the entry of another
\* collection is never changed.
C15_InvalidationFrame ==
  /\ (Completed({"update", "remove"}) /\ last.resp.status = 200) =>
       /\ last.invalidated = 2
       /\ last.touchedKeys \subseteq {AllKey, IdKey(last.id)}
       /\ AllKey \notin DOMAIN serverCache
       /\ IdKey(last.id) \notin DOMAIN serverCache
  /\ (Completed({"create"}) /\ last.resp.status = 200) =>
       /\ last.invalidated = 1
       /\ last.touchedKeys \subseteq {AllKey}
       /\ AllKey \notin DOMAIN serverCache
  /\ OtherKey \in DOMAIN serverCache
  /\ serverCache[OtherKey] = [data |-> OtherResult, timestamp |-> 0, expiresAt |-> CacheTime]

C15_Witness ==
  /\ Completed({"update", "remove"})
  /\ last.resp.status = 200
  /\ IdKey(last.id) \in last.touchedKeys
  /\ \E i \in Ids \ {last.id} : IdKey(i) \in DOMAIN serverCache

\* ===================================================================
\* Claims about the TTL cache (specification CacheSpec)
\* ===================================================================
Recorded(k) == hist[k].set

\* C3: get(k) returns the value of the latest set(k, v, ttl), ttl > 0, at every
\* time strictly before the time of that set plus ttl, when k has not been deleted
\* or cleared since.
C3_GetBeforeExpiry ==
  (ret.op = "get" /\ Recorded(ret.key) /\ ~hist[ret.key].dflt /\ ~hist[ret.key].removed
     /\ clock < hist[ret.key].at + hist[ret.key].ttl) =>
    /\ ~ret.got.null
    /\ ret.got.value = hist[ret.key].v

C3_Witness ==
  /\ ret.op = "get"
  /\ Recorded(ret.key)
  /\ ~hist[ret.key].dflt /\ ~hist[ret.key].removed
  /\ clock > hist[ret.key].at
  /\ clock < hist[ret.key].at + hist[ret.key].ttl
  /\ ~ret.got.null
  /\ DOMAIN clientCache = CKeys

\* C4: once the clock is past the time of the latest set(k, v, ttl) plus ttl, get(k)
\* returns null and has(k) returns false, until k is set again; a set without ttl
\* is live 4 minutes later and absent 6 minutes later.
C4_AbsentAfterExpiry ==
  /\ (ret.op \in {"get", "has"} /\ Recorded(ret.key) /\ ~hist[ret.key].dflt
        /\ clock > hist[ret.key].at + hist[ret.key].ttl) =>
       IF ret.op = "get" THEN ret.got.null ELSE ~ret.has
  /\ (ret.op \in {"get", "has"} /\ Recorded(ret.key) /\ hist[ret.key].dflt
        /\ clock >= hist[ret.key].at + 6) =>
       IF ret.op = "get" THEN ret.got.null ELSE ~ret.has
  /\ (ret.op \in {"get", "has"} /\ Recorded(ret.key) /\ hist[ret.key].dflt
        /\ ~hist[ret.key].removed /\ clock <= hist[ret.key].at + 4) =>
       IF ret.op = "get" THEN ~ret.got.null /\ ret.got.value = hist[ret.key].v ELSE ret.has

C4_Witness ==
  /\ ret.op = "has"
  /\ Recorded(ret.key)
  /\ hist[ret.key].dflt /\ ~hist[ret.key].removed
  /\ clock >= hist[ret.key].at + 6
  /\ ~ret.has

\* the keys of CKeys whose latest set nothing has removed or evicted since
Kept == {k \in CKeys : hist[k].set /\ ~hist[k].removed /\ ~hist[k].evicted}

\* C16: a get or has of a key whose latest set is past its expiry answers as for a
\* key never set (null, false) and leaves the key out of keys() and size(); nothing
\* else removes an expired entry: until such a lookup, a delete or a clear, the key
\* stays in keys().
C16_LazyEviction ==
  /\ (ret.op \in {"get", "has"} /\ PastExpiry(hist[ret.key], clock)) =>
       /\ IF ret.op = "get" THEN ret.got.null ELSE ~ret.has
       /\ ret.key \notin CacheKeys(clientCache)
       /\ CacheSize(clientCache) = Cardinality(CacheKeys(clientCache) \ {ret.key})
  /\ \A k \in CKeys :
       (PastExpiry(hist[k], clock) /\ ~hist[k].evicted) => k \in CacheKeys(clientCache)

C16_Witness ==
  /\ ret.op = "has"
  /\ PastExpiry(hist[ret.key], clock)
  /\ ~ret.has
  /\ ret.key \notin CacheKeys(clientCache)
  /\ CacheSize(clientCache) = 1
  /\ \E k \in CacheKeys(clientCache) : PastExpiry(hist[k], clock)

\* C17: size() is the number of keys(), and keys() is exactly the keys set and not
\* since deleted, cleared or evicted by a lookup after expiry.
C17_KeysAndSize ==
  /\ CacheSize(clientCache) = Cardinality(CacheKeys(clientCache))
  /\ CacheKeys(clientCache) = Kept

C17_Witness ==
  /\ CacheSize(clientCache) = 1
  /\ \E k \in CacheKeys(clientCache) : PastExpiry(hist[k], clock)
  /\ \E k \in CKeys : hist[k].evicted

\* C18: after set(k, v2, ttl2) the entry of k is v2 expiring at now + ttl2 whatever
\* entry k had, get(k) returns v2, and size() is as before when k was present.
C18_SetOverwrites ==
  ret.op = "set" =>
    LET k == ret.key
        h == hist[k]
    IN /\ k \in CacheKeys(clientCache)
       /\ clientCache[k] = [data |-> h.v, timestamp |-> clock, expiresAt |-> clock + TtlOf(h)]
       /\ CacheGetValue(clientCache, k, clock) = [null |-> FALSE, value |-> h.v]
       /\ ret.had => CacheSize(clientCache) = ret.size
       /\ \A j \in Kept \ {k} :
            /\ j \in CacheKeys(clientCache)
            /\ clientCache[j] = [data |-> hist[j].v, timestamp |-> hist[j].at,
                                 expiresAt |-> hist[j].at + TtlOf(hist[j])]

C18_Witness ==
  /\ ret.op = "set"
  /\ ret.had
  /\ ret.later
  /\ ~hist[ret.key].dflt
  /\ CacheSize(clientCache) = 2

\* C19: a second delete(k) or deleteByPrefix(p) right after the first leaves the
\* cache as the first left it, and either call leaves a cache with no matching key
\* as it was.
C19_DeleteIdempotent ==
  /\ ret.op = "delete" =>
       /\ CacheDelete(clientCache, ret.key) = clientCache
       /\ ret.key \notin DOMAIN ret.before => clientCache = ret.before
  /\ ret.op = "deleteByPrefix" =>
       /\ CacheDeleteByPrefix(clientCache, ret.key) = clientCache
       /\ (\A k \in DOMAIN ret.before : ~StartsWith(k, ret.key)) => clientCache = ret.before

C19_Witness ==
  /\ ret.op = "deleteByPrefix"
  /\ ret.key = <<>>
  /\ Cardinality(DOMAIN ret.before) = 2
  /\ clientCache = EmptyCache

\* p is an initial segment of k
IsPrefixOf(p, k) == \E n \in 0..Len(k) : SubSeq(k, 1, n) = p

\* C20: deleteByPrefix(p) removes the entries whose key starts with p and no other:
\* each key starting with p is gone and each other key keeps its value and expiry.
C20_PrefixFrame ==
  ret.op = "deleteByPrefix" =>
    /\ DOMAIN clientCache = {k \in DOMAIN ret.before : ~IsPrefixOf(ret.key, k)}
    /\ \A k \in DOMAIN clientCache : clientCache[k] = ret.before[k]

C20_Witness ==
  /\ ret.op = "deleteByPrefix"
  /\ ret.key = <<"b">>
  /\ DOMAIN ret.before = CKeys
  /\ DOMAIN clientCache = {<<"a", "b">>}


\* ---- claims about the connection singleton (ConfigSpec) ---------------

NoMode(config) ==
  config.database = Null /\ config.getDatabaseFn = Null /\ config.mongodbUri = Null

\* C21: configureCollectionHooks called with none of mongodbUri, database and
\* getDatabaseFn throws, creates no connection promise (no store interaction), and
\* leaves client, db and connectionPromise as they were before the call.
C21_InvalidConfigThrows ==
  (cfgLast.op = "configure" /\ NoMode(cfgLast.config)) =>
    /\ cfgLast.threw
    /\ ConnectionState = cfgLast.before
    /\ promises[ncalls] = NoPromise

C21_Witness ==
  /\ cfgLast.op = "configure"
  /\ NoMode(cfgLast.config)
  /\ cfgLast.threw
  /\ cfgLast.before[2] # Null
  /\ cfgLast.before[3] # 0

\* a getDatabase call has just resolved to the Db v: at once, or resumed by the
\* settling of the promise it awaited
Resolved(v) ==
  \/ cfgLast.op = "getDatabase" /\ cfgLast.outcome = "resolved" /\ cfgLast.value = v
  \/ cfgLast.op = "settle" /\ cfgLast.outcome = "resolved" /\ cfgLast.resumed > 0
       /\ cfgLast.value = v

\* C22: as long as closeConnection was never called, a getDatabase call resolves to
\* the Db named by the most recent valid configureCollectionHooks call.
C22_LatestConfigWins ==
  \A v \in Dbs : (Resolved(v) /\ ~closes) => v = latest

\* C23: a getDatabase call made while no configuration is in effect rejects with
\* 'Database not configured', and a closeConnection call made then resolves.
C23_NotConfiguredRejects ==
  /\ (cfgLast.op = "getDatabase" /\ ~cfgLast.inEffect) =>
       (cfgLast.outcome = "rejected" /\ cfgLast.value = "Database not configured")
  /\ (cfgLast.op = "close" /\ ~cfgLast.inEffect) => cfgLast.outcome = "resolved"


\* ---- claims about the hooks (QuerySpec, CollectionSpec, MutationSpec) ---

\* what the client cache holds under the collection's key, expired or not
EntryData(c) == IF ClientKey \in DOMAIN c THEN Loaded(c[ClientKey].data) ELSE NoData

RefreshSettled == hLast.op = "settle" /\ hLast.kind = "refresh" /\ hLast.live

\* C24: when a refresh() of the mounted useCollection fails (non-2xx response or
\* network error), its promise resolves, the error is logged, the displayed data and
\* the value cached under the collection's key are what they were when the response
\* arrived, isRefreshing is false and the exposed loading is the query's loading.
C24_FailedRefreshKeepsData ==
  (hook = "collection" /\ RefreshSettled /\ hLast.outcome.kind # "json") =>
    /\ hLast.promise = "resolved"
    /\ hLast.logged
    /\ cachedData = hLast.shown
    /\ EntryData(clientCache) = EntryData(hLast.entries)
    /\ ~isRefreshing
    /\ ExposedLoading = loading

LiveRefreshes == {r \in requests : r.kind = "refresh" /\ LiveRequest(r)}

\* C25: the exposed loading is true while a refresh() of the mounted instance has
\* not settled, and false when none is in flight and the query is not loading.
C25_LoadingWhileRefreshing ==
  hook = "collection" =>
    /\ LiveRefreshes # {} => ExposedLoading
    /\ (LiveRefreshes = {} /\ ~loading) => ~ExposedLoading

\* C26: when a fetch or refresh of the mounted useCollection resolves with success
\* and data, the displayed data is the processed payload and the client cache holds
\* it under the collection's key, set now with ttl cacheTime; a response with
\* success false leaves the displayed data and the cached value as they were.
C26_SuccessReplacesData ==
  (hook = "collection" /\ hLast.op = "settle" /\ hLast.live /\ hLast.outcome.kind = "json") =>
    IF HasItems(hLast.outcome.body)
      THEN /\ cachedData = Process(hLast.outcome.body.data, options)
           /\ ClientKey \in DOMAIN clientCache
           /\ clientCache[ClientKey] =
                [data |-> Process(hLast.outcome.body.data, options), timestamp |-> clock,
                 expiresAt |-> clock + options.cacheTime]
      ELSE /\ cachedData = hLast.shown
           /\ EntryData(clientCache) = EntryData(hLast.entries)

\* the entry the mount found is live
FoundLive == ClientKey \in DOMAIN hLast.entries /\ clock <= hLast.entries[ClientKey].expiresAt

\* C27: right after useCollection mounts, with its fetch in flight, the displayed
\* data is the entry of the client cache when that entry is live and initialData
\* otherwise; and as long as no successful response was applied the displayed data
\* stays what the mount made it.
C27_MountSeedsFromCache ==
  /\ (hook = "collection" /\ hLast.op = "mount") =>
       /\ \E r \in requests : LiveRequest(r) /\ r.kind = "query"
       /\ cachedData = IF FoundLive THEN hLast.entries[ClientKey].data ELSE initialData
       /\ seed = IF FoundLive THEN Loaded(hLast.entries[ClientKey].data) ELSE NoData
  /\ (hook = "collection" /\ ~applied) =>
       cachedData = IF seed.null THEN initialData ELSE seed.value

C27_Witness ==
  /\ hook = "collection"
  /\ hLast.op = "mount"
  /\ FoundLive
  /\ cachedData = hLast.entries[ClientKey].data
  /\ cachedData # initialData
  /\ loading

\* C28: useCollectionQuery with a url: after the mount it is loading with data null
\* and error null and one fetch of the url is in flight; a url change and refetch
\* issue one fetch and set loading; a settling fetch sets loading false, with the
\* body as data and error null on success, and data null and the error on failure.
C28_QueryCycle ==
  hook = "query" =>
    /\ (hLast.op = "mount" /\ url # Null) =>
         /\ loading /\ serverData = NoData /\ error = Null
         /\ {r.url : r \in {q \in requests : q.inst = inst}} = {url}
    /\ (hLast.op \in {"mount", "url", "refetch"} /\ url # Null) =>
         /\ loading
         /\ nfetch = hLast.before + 1
         /\ \E r \in requests : r.id = nfetch /\ r.url = url /\ r.inst = inst
    /\ (hLast.op = "settle" /\ hLast.live) =>
         /\ ~loading
         /\ hLast.outcome.kind = "json" =>
              serverData = Loaded(hLast.outcome.body) /\ error = Null
         /\ hLast.outcome.kind = "network" =>
              serverData = NoData /\ error = "Failed to fetch"
         /\ (hLast.outcome.kind = "http" /\ hLast.outcome.status = 500) =>
              serverData = NoData /\ error = "HTTP error! Status: 500"
         /\ (hLast.outcome.kind = "http" /\ hLast.outcome.status = 404) =>
              serverData = NoData /\ error = "HTTP error! Status: 404"

C28_Witness ==
  /\ hook = "query"
  /\ hLast.op = "settle"
  /\ hLast.live
  /\ hLast.outcome.kind = "http"
  /\ hLast.outcome.status = 404
  /\ error = "HTTP error! Status: 404"
  /\ nfetch > 1

\* C29: useCollectionQuery mounted with a null url issues no fetch, on mount or on
\* refetch, and is not loading: loading false, data null, error null.
C29_NullUrlIdle ==
  (hook = "query" /\ url = Null /\ nfetch = 0) =>
    /\ requests = {}
    /\ ~loading
    /\ serverData = NoData
    /\ error = Null

\* C30: useCollectionMutation starts with data null, error null, loading false;
\* loading is true while a mutate call's request has not settled; a settling request
\* sets loading false, and data to the body with error null and the promise resolved
\* to the body on success, error set with data null and the promise rejected with
\* that error on failure.
C30_MutationCycle ==
  /\ nmut = 0 => (mutData = NoData /\ mutError = Null /\ ~mutLoading)
  /\ mutLast.op = "mutate" => mutLoading
  /\ mutRequests # {} => mutLoading
  /\ mutLast.op = "settle" =>
       IF mutLast.outcome.kind = "json"
         THEN /\ mutData = Loaded(mutLast.outcome.body)
              /\ mutError = Null
              /\ mutLast.promise = "resolved"
              /\ mutLast.value = mutData
         ELSE /\ mutData = NoData
              /\ mutError # Null
              /\ mutLast.promise = "rejected"
              /\ mutLast.reason = mutError


\* C39: while a refresh() of the mounted useCollection instance is in flight, the
\* exposed loading is true, also after another of its refreshes has settled.
C39_LoadingWhileAnyRefresh ==
  (hook = "collection" /\ LiveRefreshes # {}) => ExposedLoading

\* C40: while a mutate() call is in flight loading is true; and once all calls have
\* settled, data and error are those of the call that settled last.
C40_OverlappingMutations ==
  /\ mutRequests # {} => mutLoading
  /\ (mutRequests = {} /\ mutLast.op = "settle") =>
       IF mutLast.outcome.kind = "json"
         THEN mutData = Loaded(mutLast.outcome.body) /\ mutError = Null
         ELSE mutData = NoData /\ mutError # Null


\* C33: when a response of a fetch that was in flight together with another fetch of
\* the mounted instance resolves with success and data, it is the one that resolved
\* last: the displayed data and the value under the collection's key are its
\* processed payload.
C33_LastResolvedWins ==
  (hook = "collection" /\ hLast.op = "settle" /\ hLast.live /\ hLast.overlapped
     /\ hLast.outcome.kind = "json" /\ HasItems(hLast.outcome.body)) =>
    /\ cachedData = Process(hLast.outcome.body.data, options)
    /\ EntryData(clientCache) = Loaded(Process(hLast.outcome.body.data, options))

QueryFailed ==
  hLast.op = "settle" /\ hLast.kind = "query" /\ hLast.live /\ hLast.outcome.kind # "json"

\* C34: when the background fetch or a refetch of the mounted useCollection fails,
\* the hook's error is that failure and the displayed data is what it was when the
\* failure arrived.
C34_FetchFailureKeepsData ==
  (hook = "collection" /\ QueryFailed) =>
    /\ error = IF hLast.outcome.kind = "network" THEN "Failed to fetch"
               ELSE "HTTP error! Status: 500"
    /\ cachedData = hLast.shown

C34_Witness ==
  /\ hook = "collection"
  /\ QueryFailed
  /\ error = "HTTP error! Status: 500"
  /\ cachedData # <<>>
  /\ cachedData # initialData
  /\ seed.null


\* what a lookup at time t finds under key in the cache c
Found(c, key, t) ==
  IF key \in DOMAIN c /\ t <= c[key].expiresAt THEN Loaded(c[key].data) ELSE NoData

\* C37 (as stated): the only key useCollection writes is collection:<name>:all, and
\* the mount reads that key.
C37_KeyOfListingNamespace ==
  /\ DOMAIN clientCache \subseteq {<<"collection", CollectionName, "all">>}
  /\ (hook = "collection" /\ hLast.op = "mount") =>
       seed = Found(hLast.entries, <<"collection", CollectionName, "all">>, clock)

\* C37 (amended): the only key useCollection writes is collection:<name>, with
\* <name> the last path segment of the endpoint, and the mount reads that key.
C37_KeyOfCollection ==
  /\ DOMAIN clientCache \subseteq {<<"collection", CollectionName>>}
  /\ (hook = "collection" /\ hLast.op = "mount") =>
       seed = Found(hLast.entries, <<"collection", CollectionName>>, clock)

C37_Witness ==
  /\ hook = "collection"
  /\ hLast.op = "mount"
  /\ inst = 2
  /\ ~seed.null
  /\ DOMAIN clientCache = {<<"collection", CollectionName>>}


FreshReads ==
  {s \in Slots : reqs[s].kind = "getAll" /\ reqs[s].method = "GET" /\ reqs[s].storeOps > 0}

\* C36 (as claimed): of the getAll GET requests that are in flight together after
\* missing the cache at most one reads the store, and no step replaces a live
\* listing entry by a listing that was read from the store earlier than the one
\* the entry holds.
C36_SingleFreshRead ==
  [][/\ Cardinality(FreshReads') <= 1
     /\ (Live(serverCache, AllKey, now) /\ AllKey \in DOMAIN serverCache') =>
          fill'[AllKey].ver >= fill[AllKey].ver]_vars


\* getById answered 200 from the cache, without reading the store
ServedById == Completed({"getById"}) /\ last.resp.status = 200 /\ last.storeOps = 0

\* C38 (as claimed): for every id, "all" included, the key of getById, update and
\* remove is not the key of the listing: a getById that is answered from the cache
\* is never answered from the entry of the listing, and no getById stores its
\* single-document response under the key of the listing.
C38_IdKeyApartFromListing ==
  /\ ServedById => IdKey(last.id) # AllKey
  /\ (Completed({"getById"}) /\ last.sets = 1) => IdKey(last.id) # AllKey


\* C31: the loading that useAllCollections returns is true exactly when some
\* instance returns loading (its loading or its isRefreshing is set), and the
\* error it returns is the error of the first instance, in the order of endpoints,
\* whose error is not null, and null when no instance has an error.
C31_AggregateLoadingAndError ==
  allHook = "mounted" =>
    /\ allOut.loading <=>
         \E k \in Instances : collections[k].loading \/ collections[k].isRefreshing
    /\ (\A k \in Instances : collections[k].error = Null) => allOut.error = Null
    /\ \A k \in Instances :
         (collections[k].error # Null /\ \A j \in 1..(k - 1) : collections[j].error = Null)
           => allOut.error = collections[k].error

C31_Witness ==
  /\ allHook = "mounted"
  /\ collections[1].error = "Failed to fetch"
  /\ collections[2].error = "HTTP error! Status: 500"
  /\ allOut.error = "Failed to fetch"
  /\ ~collections[1].loading
  /\ collections[2].isRefreshing
  /\ allOut.loading

\* C32: a refreshAll call starts the refresh of every instance, its promise is
\* fulfilled exactly when the refresh of every instance has settled, and it is never
\* rejected, whatever the refresh requests answer.
C32_RefreshAllSettles ==
  \A c \in 1..Len(allCalls) :
    /\ DOMAIN allCalls[c].promises = Instances
    /\ \A k \in Instances :
         allCalls[c].promises[k] = "pending"
           <=> [call |-> c, key |-> k, kind |-> "refresh"] \in allRequests
    /\ allCalls[c].state # "rejected"
    /\ allCalls[c].state = "fulfilled"
         <=> \A k \in Instances : [call |-> c, key |-> k, kind |-> "refresh"] \notin allRequests

C32_Witness ==
  /\ allLast.op = "refreshSettle"
  /\ allLast.outcome.kind = "network"
  /\ allCalls[allLast.call].state = "fulfilled"
  /\ allCalls[allLast.call].failed = Instances
  /\ \A r \in allRequests : r.call # allLast.call

====
